---------------------------- MODULE Spec2Model ----------------------------
(***************************************************************************)
(* Model of the BLE UART hook of carot-ios (useBluetoothUART): the        *)
(* notification line reassembler, the line classifier and reading parser,  *)
(* the single-slot command coordinator with its deadline timers, the       *)
(* statistics effect and the snapshot persistence effect.                  *)
(*                                                                         *)
(* The repository holds two variants of the hook:                          *)
(*   "hooks"   src/hooks/useBluetoothUART.js                               *)
(*   "part001" src/unnamed/part_001                                        *)
(* The variable `variant` fixes, in the initial state, which one runs.     *)
(*                                                                         *)
(* Text is a sequence of one-character strings.  A JavaScript number is a  *)
(* record [k, n, d]: k = "num" for the rational n/d in lowest terms,       *)
(* k = "nan" for NaN, k = "undef" for an absent (undefined) field and      *)
(* k = "null" for a JSON null.                                             *)
(***************************************************************************)
EXTENDS Integers, Sequences, FiniteSets, TLC

VARIABLES
    variant,          \* which of the two hook files runs
    \* ---- React state and refs of the hook
    connectionState, isConnected, isScanning, error,
    sensorLogData, statusLogData, stats,
    txCharRef, rxCharRef, activeCommandRef, lineBufferRef,
    \* ---- asynchronous positions and the environment
    now,              \* Date.now()
    scanOn,           \* manager.startDeviceScan is delivering callbacks
    scanCb,           \* the scan callback: the connectionState its closure
                      \* holds, the discoveries still on their way to it
    connPc,           \* the async continuations of connectAndListen in
                      \* progress: position and connectionState of the closure
    radioOn,          \* the Bluetooth radio is powered on
    link,             \* the transport's own view: "down" or "up"
    monitoring,       \* the live monitor / onDisconnected subscriptions, by
                      \* the connectionState of their closure
    wire,             \* text the device has still to notify
    pendingWrites,    \* writeWithResponse calls not yet settled
    timers,           \* armed deadline timers, by command name
    retryTimer,       \* part001: the armed reconnect timers, by the
                      \* connectionState of their closure
    \* ---- rendering, effects and the snapshot file
    mounted, dataDirty, statsDirty,
    file, pendingSaves, loadPc, clearPc,
    storageStats,     \* hooks: totalReadings of the storage effect
    timeRangeStats,   \* hooks: readingsToday, readingsWeek, readingsMonth
    \* ---- history variables (observation only)
    lastOp, freedBy, resp, fed, delivered, saveLost, statsFresh, budget

vars == << variant, connectionState, isConnected, isScanning, error,
           sensorLogData, statusLogData, stats,
           txCharRef, rxCharRef, activeCommandRef, lineBufferRef,
           now, scanOn, scanCb, connPc, radioOn, link, monitoring, wire,
           pendingWrites,
           timers, retryTimer, mounted, dataDirty, statsDirty,
           file, pendingSaves, loadPc, clearPc, storageStats, timeRangeStats,
           lastOp, freedBy, resp, fed, delivered, saveLost, statsFresh,
           budget >>

-----------------------------------------------------------------------------
(* Bounds of the model *)

\* streams the device sends in one run
MaxStreams == 1
\* deadline timers of one command name armed together
MaxTimers == 1
\* connectAndListen calls of the caller in one run of the protocol
MaxConnects == 1
\* connectAndListen calls of the caller in one run of the lifecycle
MaxRequests == 2
\* discoveries still delivered to the scan callback after it stopped the scan
MaxLate == 1
\* readings in a reading set drawn for the statistics effect
MaxReadings == 3
\* last calendar day the clock reaches (day 0 is the first)
MaxDay == 1
\* characters fed to the reassembler in the framing specification
MaxFed == 4
\* snapshot writes that may be pending together
MaxPendingSaves == 2
\* readings appended while the persistence specification runs
MaxStoreLines == 1

-----------------------------------------------------------------------------
(* Program constants *)

DayMs == 86400000

Variants == {"hooks", "part001"}
NULL == "null"
Commands == {"HELLO", "GET", "CLEAR"}

-----------------------------------------------------------------------------
(* Text *)

NL == "\n"
Digits == {"0", "1", "2", "3", "4", "5", "6", "7", "8", "9"}
WhiteSpace == {" ", "\r", "\n", "\t"}

DigitVal(c) ==
    CASE c = "0" -> 0 [] c = "1" -> 1 [] c = "2" -> 2 [] c = "3" -> 3
      [] c = "4" -> 4 [] c = "5" -> 5 [] c = "6" -> 6 [] c = "7" -> 7
      [] c = "8" -> 8 [] c = "9" -> 9

\* String.prototype.toUpperCase on one character (the letters the model uses)
UpperChar(c) ==
    CASE c = "e" -> "E" [] c = "n" -> "N" [] c = "d" -> "D" [] c = "r" -> "R"
      [] c = "o" -> "O" [] c = "c" -> "C" [] c = "l" -> "L" [] c = "a" -> "A"
      [] c = "h" -> "H" [] c = "i" -> "I" [] c = "t" -> "T"
      [] OTHER -> c

ToUpperCase(s) == [i \in 1..Len(s) |-> UpperChar(s[i])]

\* String.prototype.indexOf(c): the first position of c, 0 when absent
\* (positions are 1-based here, so 0 plays the part of JavaScript's -1)
IndexOf(s, c) ==
    IF \E i \in 1..Len(s) : s[i] = c
    THEN CHOOSE i \in 1..Len(s) : s[i] = c /\ \A j \in 1..(i - 1) : s[j] # c
    ELSE 0

\* String.prototype.includes(pat)
Includes(s, pat) ==
    \E i \in 0..(Len(s) - Len(pat)) : SubSeq(s, i + 1, i + Len(pat)) = pat

RECURSIVE Split(_, _)
\* String.prototype.split(c)
Split(s, c) ==
    LET i == IndexOf(s, c) IN
    IF i = 0 THEN << s >>
    ELSE << SubSeq(s, 1, i - 1) >> \o Split(SubSeq(s, i + 1, Len(s)), c)

RECURSIVE TrimLeft(_)
TrimLeft(s) ==
    IF s # << >> /\ s[1] \in WhiteSpace THEN TrimLeft(Tail(s)) ELSE s

RECURSIVE TrimRight(_)
TrimRight(s) ==
    IF s # << >> /\ s[Len(s)] \in WhiteSpace
    THEN TrimRight(SubSeq(s, 1, Len(s) - 1)) ELSE s

\* String.prototype.trim
Trim(s) == TrimRight(TrimLeft(s))

AllDigits(s) == s # << >> /\ \A i \in 1..Len(s) : s[i] \in Digits

RECURSIVE DecimalValue(_)
DecimalValue(s) ==
    IF s = << >> THEN 0
    ELSE 10 * DecimalValue(SubSeq(s, 1, Len(s) - 1)) + DigitVal(s[Len(s)])

RECURSIVE Pow10(_)
Pow10(n) == IF n = 0 THEN 1 ELSE 10 * Pow10(n - 1)

-----------------------------------------------------------------------------
(* JavaScript numbers *)

RECURSIVE Gcd(_, _)
Gcd(a, b) == IF b = 0 THEN a ELSE Gcd(b, a % b)

Num(i) == [k |-> "num", n |-> i, d |-> 1]
NaN == [k |-> "nan", n |-> 0, d |-> 1]
Undefined == [k |-> "undef", n |-> 0, d |-> 1]
Null == [k |-> "null", n |-> 0, d |-> 1]
Zero == Num(0)

\* a value used as an operand: null converts to 0, undefined to NaN
ToNumber(x) ==
    CASE x.k = "null" -> Zero
      [] x.k = "undef" -> NaN
      [] OTHER -> x

\* a + b
Plus(a, b) ==
    LET x == ToNumber(a)
        y == ToNumber(b)
    IN  IF x.k = "nan" \/ y.k = "nan" THEN NaN
        ELSE LET nn == x.n * y.d + y.n * x.d
                 dd == x.d * y.d
                 g == Gcd(nn, dd)
             IN  [k |-> "num", n |-> nn \div g, d |-> dd \div g]

\* a / c for a positive integer c (an array length)
DivInt(a, c) ==
    LET x == ToNumber(a) IN
    IF x.k = "nan" THEN NaN
    ELSE LET dd == x.d * c
             g == Gcd(x.n, dd)
         IN  [k |-> "num", n |-> x.n \div g, d |-> dd \div g]

\* a > b (false when either side is NaN)
Greater(a, b) ==
    LET x == ToNumber(a)
        y == ToNumber(b)
    IN  x.k = "num" /\ y.k = "num" /\ x.n * y.d > y.n * x.d

\* Number(s) for a text s over the model's alphabet (digits, letters, comma,
\* white space): white space is trimmed, the empty text is 0, a digit string
\* is its decimal value, digits-e-digits is the exponent form, anything else
\* is NaN.
NumberOfText(s) ==
    LET t == Trim(s)
        u == ToUpperCase(t)
        e == IndexOf(u, "E")
    IN  IF t = << >> THEN Zero
        ELSE IF AllDigits(t) THEN Num(DecimalValue(t))
        ELSE IF e > 1 /\ AllDigits(SubSeq(t, 1, e - 1))
                /\ AllDigits(SubSeq(t, e + 1, Len(t)))
             THEN Num(DecimalValue(SubSeq(t, 1, e - 1))
                      * Pow10(DecimalValue(SubSeq(t, e + 1, Len(t)))))
        ELSE NaN

-----------------------------------------------------------------------------
(* Line classification and the reading parser (handleTX) *)

\* /^\d+,\d+/.test(t): digits, a comma, a digit at the start of the text
LooksLikeReading(t) ==
    LET i == IndexOf(t, ",") IN
    /\ i > 1
    /\ \A j \in 1..(i - 1) : t[j] \in Digits
    /\ Len(t) > i
    /\ t[i + 1] \in Digits

\* /END|ERROR|CLEARED/i.test(text); part001 spells it with toUpperCase and
\* includes
IsSentinel(text) ==
    LET u == ToUpperCase(text) IN
    \/ Includes(u, << "E", "N", "D" >>)
    \/ Includes(u, << "E", "R", "R", "O", "R" >>)
    \/ Includes(u, << "C", "L", "E", "A", "R", "E", "D" >>)

\* const [ts, val] = line.trim().split(','): the first two fields, the second
\* one undefined (here: the marker FALSE in `has`) when there is no comma
FirstTwoFields(line) ==
    LET f == Split(Trim(line), ",") IN
    [ts |-> f[1],
     hasVal |-> Len(f) >= 2,
     val |-> IF Len(f) >= 2 THEN f[2] ELSE << >>]

\* hooks: a field that is undefined or the empty string rejects the line;
\* the two fields are then converted with Number, whatever they hold
ParseLineHooks(line, t) ==
    LET f == FirstTwoFields(line) IN
    IF f.ts = << >> \/ ~f.hasVal \/ f.val = << >> THEN << >>
    ELSE << [deviceTimestamp |-> NumberOfText(f.ts),
             intensity |-> NumberOfText(f.val),
             receivedAt |-> t] >>

\* part001: the two fields are converted with Number first (Number(undefined)
\* is NaN, Number('') is 0) and a NaN rejects the line
ParseLinePart001(line, t) ==
    LET f == FirstTwoFields(line)
        ts == NumberOfText(f.ts)
        intensity == IF f.hasVal THEN NumberOfText(f.val) ELSE NaN
    IN  IF ts.k = "nan" \/ intensity.k = "nan" THEN << >>
        ELSE << [deviceTimestamp |-> ts, intensity |-> intensity,
                 receivedAt |-> t] >>

ParseLine(v, line, t) ==
    IF v = "hooks" THEN ParseLineHooks(line, t) ELSE ParseLinePart001(line, t)

RECURSIVE ConcatMap(_, _, _)
\* text.split('\n').map(parse).filter(Boolean)
ConcatMap(v, pieces, t) ==
    IF pieces = << >> THEN << >>
    ELSE ParseLine(v, Head(pieces), t) \o ConcatMap(v, Tail(pieces), t)

ParseBatch(v, text, t) == ConcatMap(v, Split(text, NL), t)

-----------------------------------------------------------------------------
(* The command coordinator.  The handlers work on a record h of the refs    *)
(* and queues they touch:                                                  *)
(*   active  activeCommandRef.current                                      *)
(*   data    readings appended by setSensorLogData                         *)
(*   status  entries appended by setStatusLogData                          *)
(*   pw      writeWithResponse calls started and not yet settled           *)
(*   written the commands whose write this step started (observation)      *)
(*   lines   one record per line this step classified (observation)        *)
(*   freed   how the slot was last released (observation)                  *)
(***************************************************************************)

\* sendCommand without the guard on the slot
SendCommandNoGuard(h, rx, up, cmd) ==
    IF rx = NULL THEN h
    ELSE [h EXCEPT !.active = cmd,
                   !.pw = Append(@, [cmd |-> cmd, ok |-> up, aw |-> FALSE]),
                   !.written = Append(@, cmd)]

\* sendCommand without the guard on the write characteristic
SendCommandNoRx(h, rx, up, cmd) ==
    IF h.active # NULL THEN h
    ELSE [h EXCEPT !.active = cmd,
                   !.pw = Append(@, [cmd |-> cmd, ok |-> up, aw |-> FALSE]),
                   !.written = Append(@, cmd)]

\* sendCommand up to its await: the two guards, the slot and the write call
SendCommand(h, rx, up, cmd) ==
    IF h.active # NULL THEN h
    ELSE IF rx = NULL THEN h
    ELSE [h EXCEPT !.active = cmd,
                   !.pw = Append(@, [cmd |-> cmd, ok |-> up, aw |-> FALSE]),
                   !.written = Append(@, cmd)]

\* clearLog
ClearLog(h, rx, up) == SendCommand(h, rx, up, "CLEAR")

\* a CLEAR after every sentinel
ChainsClearAlways(v, cmd) == TRUE

\* the guard of the automatic CLEAR after a sentinel
ChainsClear(v, cmd) ==
    IF v = "hooks" THEN cmd # "CLEAR"
    ELSE cmd # NULL /\ cmd # "CLEAR"

LineRecord(text, cmd, kind, readings, before, after) ==
    [text |-> text, cmd |-> cmd, kind |-> kind, readings |-> readings,
     written |-> SubSeq(after.written, Len(before.written) + 1,
                        Len(after.written)),
     slotAfter |-> after.active]

\* handleTX whose reading branch does not return: the readings are appended
\* and the line goes on to the sentinel test
HandleTXFallThrough(v, h, rx, up, text, t) ==
    LET cmd == h.active
        looksLikeReading == LooksLikeReading(Trim(text))
        readings == IF cmd = "GET" \/ looksLikeReading
                    THEN ParseBatch(v, text, t) ELSE << >>
        g == [h EXCEPT !.data = @ \o readings]
    IN  IF IsSentinel(text)
        THEN LET released == [g EXCEPT !.active = NULL,
                                       !.freed = IF cmd # NULL THEN "sentinel"
                                                 ELSE @]
                 chained == IF ChainsClear(v, cmd)
                            THEN ClearLog(released, rx, up) ELSE released
             IN  [chained EXCEPT
                     !.lines = Append(@, LineRecord(text, cmd, "sentinel",
                                                    readings, h, chained))]
        ELSE IF readings # << >>
        THEN [g EXCEPT !.lines = Append(@, LineRecord(text, cmd, "readings",
                                                      readings, h, h))]
        ELSE [h EXCEPT
                 !.status = Append(@, [timestamp |-> t, command |-> cmd,
                                       text |-> Trim(text)]),
                 !.lines = Append(@, LineRecord(text, cmd, "status", << >>,
                                                h, h))]

\* handleTX whose status entry carries no command
HandleTXUntagged(v, h, rx, up, text, t) ==
    LET cmd == h.active
        looksLikeReading == LooksLikeReading(Trim(text))
        readings == IF cmd = "GET" \/ looksLikeReading
                    THEN ParseBatch(v, text, t) ELSE << >>
    IN  IF readings # << >>
        THEN [h EXCEPT !.data = @ \o readings,
                       !.lines = Append(@, LineRecord(text, cmd, "readings",
                                                      readings, h, h))]
        ELSE IF IsSentinel(text)
        THEN LET released == [h EXCEPT !.active = NULL,
                                       !.freed = IF cmd # NULL THEN "sentinel"
                                                 ELSE @]
                 chained == IF ChainsClear(v, cmd)
                            THEN ClearLog(released, rx, up) ELSE released
             IN  [chained EXCEPT
                     !.lines = Append(@, LineRecord(text, cmd, "sentinel",
                                                    << >>, h, chained))]
        ELSE [h EXCEPT
                 !.status = Append(@, [timestamp |-> t, command |-> NULL,
                                       text |-> Trim(text)]),
                 !.lines = Append(@, LineRecord(text, cmd, "status", << >>,
                                                h, h))]

\* handleTX(text) at time t
HandleTX(v, h, rx, up, text, t) ==
    LET cmd == h.active
        looksLikeReading == LooksLikeReading(Trim(text))
        readings == IF cmd = "GET" \/ looksLikeReading
                    THEN ParseBatch(v, text, t) ELSE << >>
    IN  IF readings # << >>
        THEN [h EXCEPT !.data = @ \o readings,
                       !.lines = Append(@, LineRecord(text, cmd, "readings",
                                                      readings, h, h))]
        ELSE IF IsSentinel(text)
        THEN LET released == [h EXCEPT !.active = NULL,
                                       !.freed = IF cmd # NULL THEN "sentinel"
                                                 ELSE @]
                 chained == IF ChainsClear(v, cmd)
                            THEN ClearLog(released, rx, up) ELSE released
             IN  [chained EXCEPT
                     !.lines = Append(@, LineRecord(text, cmd, "sentinel",
                                                    << >>, h, chained))]
        ELSE [h EXCEPT
                 !.status = Append(@, [timestamp |-> t, command |-> cmd,
                                       text |-> Trim(text)]),
                 !.lines = Append(@, LineRecord(text, cmd, "status", << >>,
                                                h, h))]

RECURSIVE DrainLines(_, _, _, _, _, _)
\* the while loop of the monitor callback: cut the buffer at each newline and
\* hand the line to handleTX
DrainLines(v, buf, h, rx, up, t) ==
    LET idx == IndexOf(buf, NL) IN
    IF idx = 0 THEN [buf |-> buf, h |-> h]
    ELSE DrainLines(v, SubSeq(buf, idx + 1, Len(buf)),
                    HandleTX(v, h, rx, up, SubSeq(buf, 1, idx - 1), t),
                    rx, up, t)

\* a callback that starts each notification from an empty buffer
MonitorCallbackNoCarry(v, buf, h, rx, up, text, t) ==
    DrainLines(v, text, h, rx, up, t)

\* a callback that keeps no partial line
MonitorCallbackDropTail(v, buf, h, rx, up, text, t) ==
    [DrainLines(v, buf \o text, h, rx, up, t) EXCEPT !.buf = << >>]

\* the monitor callback on a decoded notification `text`
MonitorCallback(v, buf, h, rx, up, text, t) ==
    DrainLines(v, buf \o text, h, rx, up, t)

-----------------------------------------------------------------------------
(* Initial state: the hook right after construction (useState, useRef) *)

\* useState of stats: six fields in hooks, three in part001
InitialStats(v) ==
    IF v = "hooks"
    THEN [totalExposure |-> Zero, avgIntensity |-> Zero, maxIntensity |-> Zero,
          latestIntensity |-> Zero, numberReadings |-> Zero, peakTime |-> Zero]
    ELSE [totalExposure |-> Zero, avgIntensity |-> Zero, maxIntensity |-> Zero,
          latestIntensity |-> Undefined, numberReadings |-> Undefined,
          peakTime |-> Undefined]

\* useState of storageStats (sizeKB, the length of the JSON text over 1024,
\* is not followed); part001 has no such state, reading it gives undefined
InitialStorageStats(v) ==
    IF v = "hooks" THEN [totalReadings |-> Zero]
    ELSE [totalReadings |-> Undefined]

\* useState of timeRangeStats; part001 has no such state
InitialTimeRangeStats(v) ==
    IF v = "hooks"
    THEN [readingsToday |-> Zero, readingsWeek |-> Zero,
          readingsMonth |-> Zero]
    ELSE [readingsToday |-> Undefined, readingsWeek |-> Undefined,
          readingsMonth |-> Undefined]

\* the data file: whether it exists, whether it holds a bare array (the old
\* format), and for an object whether it has a readings and a stats field
\* and what they hold
NoFile == [exists |-> FALSE, legacy |-> FALSE, hasReadings |-> FALSE,
           hasStats |-> FALSE, readings |-> << >>,
           stats |-> InitialStats("hooks")]

NoLine == [text |-> << >>, cmd |-> NULL, kind |-> "none", readings |-> << >>,
           written |-> << >>, slotAfter |-> NULL]

\* what the last step did: the operation, its command, the slot before it,
\* the writes it started and the last line it classified
Op(op, cmd, slot, h) ==
    [op |-> op, cmd |-> cmd, slot |-> slot, written |-> h.written,
     line |-> IF h.lines = << >> THEN NoLine ELSE h.lines[Len(h.lines)]]

NoH == [written |-> << >>, lines |-> << >>]

\* the response in progress: the slot and the buffer when the device began
\* to send, the text, what handleTX did with it so far, whether all of it
\* has been handled, whether the slot was left alone meanwhile, and whether
\* a notification ended inside a line
NoResp == [cmd |-> NULL, buf |-> << >>, stream |-> << >>, events |-> << >>,
           open |-> FALSE, clean |-> TRUE, split |-> FALSE]

NoTimers == [c \in Commands |-> 0]

InitHook ==
    /\ variant \in Variants
    /\ connectionState = "idle"
    /\ isConnected = FALSE
    /\ isScanning = FALSE
    /\ error = NULL
    /\ sensorLogData = << >>
    /\ statusLogData = << >>
    /\ stats = InitialStats(variant)
    /\ txCharRef = NULL
    /\ rxCharRef = NULL
    /\ activeCommandRef = NULL
    /\ lineBufferRef = << >>
    /\ scanOn = FALSE
    /\ scanCb = [cs |-> NULL, late |-> 0]
    /\ connPc = << >>
    /\ link = "down"
    /\ monitoring = << >>
    /\ wire = << >>
    /\ pendingWrites = << >>
    /\ timers = NoTimers
    /\ retryTimer = << >>
    /\ mounted = FALSE
    /\ dataDirty = FALSE
    /\ statsDirty = FALSE
    /\ pendingSaves = << >>
    /\ loadPc = "start"
    /\ clearPc = "none"
    /\ storageStats = InitialStorageStats(variant)
    /\ timeRangeStats = InitialTimeRangeStats(variant)
    /\ lastOp = Op("init", NULL, NULL, NoH)
    /\ freedBy = "none"
    /\ resp = NoResp
    /\ fed = << >>
    /\ delivered = << >>
    /\ saveLost = FALSE
    /\ statsFresh = FALSE
    /\ budget = [streams |-> 0, connects |-> 0, lines |-> 0, late |-> 0]

Init ==
    /\ InitHook
    /\ now = 0
    /\ file = NoFile
    /\ radioOn = TRUE

-----------------------------------------------------------------------------
(* Frames: what each group of actions leaves alone *)

connVars == << connectionState, isConnected, isScanning, error, txCharRef,
               rxCharRef, scanOn, connPc, link, monitoring, scanCb, radioOn >>
lifeVars == << connVars, retryTimer >>
derivedVars == << storageStats, timeRangeStats >>
storeVars == << stats, mounted, statsDirty, file, pendingSaves, loadPc,
                clearPc, saveLost, statsFresh, derivedVars >>
frameVars == << fed, delivered >>

\* s without its i-th element
Without(s, i) == SubSeq(s, 1, i - 1) \o SubSeq(s, i + 1, Len(s))

\* the record the handlers work on, read from the state
Core ==
    [active |-> activeCommandRef, data |-> << >>, status |-> << >>,
     pw |-> pendingWrites, written |-> << >>, lines |-> << >>,
     freed |-> freedBy]

\* the state after a handler left the record h
Commit(h) ==
    /\ activeCommandRef' = h.active
    /\ pendingWrites' = h.pw
    /\ freedBy' = h.freed
    /\ sensorLogData' = sensorLogData \o h.data
    /\ statusLogData' = statusLogData \o h.status
    /\ dataDirty' = (dataDirty \/ h.data # << >>)

\* what a step adds to the record of the response in progress
Event(e, cmd, r) ==
    [e |-> e, cmd |-> cmd, ts |-> r.deviceTimestamp, val |-> r.intensity]

NoReading == [deviceTimestamp |-> Zero, intensity |-> Zero, receivedAt |-> 0]

RECURSIVE AppendEvents(_)
AppendEvents(rs) ==
    IF rs = << >> THEN << >>
    ELSE << Event("append", NULL, Head(rs)) >> \o AppendEvents(Tail(rs))

RECURSIVE WriteEvents(_)
WriteEvents(ws) ==
    IF ws = << >> THEN << >>
    ELSE << Event("write", Head(ws), NoReading) >> \o WriteEvents(Tail(ws))

RECURSIVE LineEvents(_)
LineEvents(ls) ==
    IF ls = << >> THEN << >>
    ELSE LET l == Head(ls) IN
         (CASE l.kind = "readings" -> AppendEvents(l.readings)
            [] l.kind = "sentinel" ->
                 << Event("release", l.cmd, NoReading) >>
                 \o WriteEvents(l.written)
            [] OTHER -> << Event("status", l.cmd, NoReading) >>)
         \o LineEvents(Tail(ls))

\* the slot is released by a deadline or a failed write while a response is
\* in progress
Disturb ==
    resp' = IF resp.open THEN [resp EXCEPT !.clean = FALSE] ELSE resp

-----------------------------------------------------------------------------
(* Connection lifecycle (connectAndListen) *)

cmdVars == << activeCommandRef, pendingWrites, freedBy, sensorLogData,
              statusLogData, dataDirty >>

\* connectAndListen is called from a closure whose connectionState is cs (the
\* WebView message handler holds the one of the last render, the reconnect
\* timer the one of the render that started the lost connection).  part001
\* returns at once if cs is a state of a connection being set up and
\* otherwise awaits manager.state(); hooks starts the scan, which replaces a
\* scan in progress.
ConnectAndListenBody(cs) ==
    IF variant = "part001"
       /\ cs \in {"connecting", "connected", "scanning"}
    THEN UNCHANGED connVars
    ELSE /\ isScanning' = TRUE
         /\ connectionState' = "scanning"
         /\ IF variant = "hooks"
            THEN /\ scanOn' = TRUE
                 /\ scanCb' = [cs |-> NULL, late |-> 0]
                 /\ UNCHANGED << error, connPc >>
            ELSE /\ error' = NULL
                 /\ connPc' = Append(connPc, [pc |-> "power", cs |-> cs])
                 /\ UNCHANGED << scanOn, scanCb >>
         /\ UNCHANGED << isConnected, txCharRef, rxCharRef, link, monitoring,
                         radioOn >>

\* the caller asks for a connection, at most `limit` times
ConnectRequest(limit) ==
    /\ budget.connects < limit
    /\ budget' = [budget EXCEPT !.connects = @ + 1]
    /\ ConnectAndListenBody(connectionState)
    /\ lastOp' = Op("connectAndListen", NULL, activeCommandRef, NoH)
    /\ UNCHANGED << variant, retryTimer, cmdVars, lineBufferRef, now, wire, timers, resp,
                    storeVars, frameVars >>

ConnectAndListen == ConnectRequest(MaxConnects)

\* part001: manager.state() answers the i-th call waiting for it
PowerCheck(i) ==
    /\ i \in 1..Len(connPc)
    /\ connPc[i].pc = "power"
    /\ connPc' = Without(connPc, i)
    /\ IF radioOn
       THEN /\ scanOn' = TRUE
            /\ scanCb' = [cs |-> connPc[i].cs, late |-> 0]
            /\ UNCHANGED << connectionState, isScanning >>
       ELSE /\ connectionState' = "idle"
            /\ isScanning' = FALSE
            /\ UNCHANGED << scanOn, scanCb >>
    /\ lastOp' = Op("powerCheck", NULL, activeCommandRef, NoH)
    /\ UNCHANGED << variant, isConnected, error, txCharRef, rxCharRef, link,
                    monitoring, retryTimer, radioOn, cmdVars, lineBufferRef,
                    now, wire, timers, resp, storeVars, frameVars, budget >>

\* the scan callback is called with an error
ScanError ==
    /\ scanOn
    /\ scanOn' = FALSE
    /\ isScanning' = FALSE
    /\ IF variant = "hooks" THEN UNCHANGED << error, connectionState >>
       ELSE error' = "scan" /\ connectionState' = "idle"
    /\ lastOp' = Op("scanError", NULL, activeCommandRef, NoH)
    /\ UNCHANGED << variant, isConnected, txCharRef, rxCharRef, connPc, link,
                    monitoring, retryTimer, scanCb, radioOn, cmdVars,
                    lineBufferRef, now, wire, timers, resp, storeVars,
                    frameVars, budget >>

\* the scan callback's branch for a matching device: the scan is stopped and
\* an async connect block starts; `late` says whether a further discovery
\* may be on its way to the callback
MatchBody(late) ==
    /\ scanOn' = FALSE
    /\ isScanning' = FALSE
    /\ connectionState' = "connecting"
    /\ connPc' = Append(connPc, [pc |-> "attach", cs |-> scanCb.cs])
    /\ scanCb' = [scanCb EXCEPT !.late = late]
    /\ UNCHANGED << variant, isConnected, error, txCharRef, rxCharRef, link,
                    monitoring, retryTimer, radioOn, cmdVars, lineBufferRef,
                    now, wire, timers, resp, storeVars, frameVars >>

\* the scan callback is called with a matching device
ScanMatch ==
    /\ scanOn
    /\ radioOn
    /\ MatchBody(1)
    /\ lastOp' = Op("scanMatch", NULL, activeCommandRef, NoH)
    /\ UNCHANGED budget

\* the scan callback is called once more with a matching device, for a
\* discovery that was on its way when the scan was stopped
LateMatch ==
    /\ scanCb.late > 0
    /\ budget.late < MaxLate
    /\ budget' = [budget EXCEPT !.late = @ + 1]
    /\ MatchBody(scanCb.late - 1)
    /\ lastOp' = Op("lateMatch", NULL, activeCommandRef, NoH)

\* device.connect() and discoverAllServicesAndCharacteristics() resolve in
\* the i-th connect block (connect() rejects on a device that is connected)
AttachOk(i) ==
    /\ i \in 1..Len(connPc)
    /\ connPc[i].pc = "attach"
    /\ link = "down"
    /\ link' = "up"
    /\ isConnected' = TRUE
    /\ connectionState' = "connected"
    /\ connPc' = [connPc EXCEPT ![i].pc = "resolve"]
    /\ lastOp' = Op("attachOk", NULL, activeCommandRef, NoH)
    /\ UNCHANGED << variant, isScanning, error, txCharRef, rxCharRef, scanOn,
                    monitoring, retryTimer, scanCb, radioOn, cmdVars,
                    lineBufferRef, now, wire, timers, resp, storeVars,
                    frameVars, budget >>

\* the catch block around the connect block
ConnectCatch ==
    IF variant = "hooks"
    THEN UNCHANGED << error, connectionState, isScanning >>
    ELSE /\ error' = "connect"
         /\ connectionState' = "disconnected"
         /\ isScanning' = FALSE

\* device.connect(), the discovery or the listing of the services rejects in
\* the i-th connect block
AttachFail(i) ==
    /\ i \in 1..Len(connPc)
    /\ connPc[i].pc \in {"attach", "resolve"}
    /\ connPc' = Without(connPc, i)
    /\ ConnectCatch
    /\ lastOp' = Op("attachFail", NULL, activeCommandRef, NoH)
    /\ UNCHANGED << variant, isConnected, txCharRef, rxCharRef, scanOn, link,
                    monitoring, retryTimer, scanCb, radioOn, cmdVars,
                    lineBufferRef, now, wire, timers, resp, storeVars,
                    frameVars, budget >>

\* mark the write sendCommand just started as the one the connect block awaits
Awaited(pw) == [pw EXCEPT ![Len(pw)].aw = TRUE]

\* monitor() and onDisconnected() are registered by a block whose closure
\* holds cs; on a device that is gone they never call back
Subscribed(cs) == IF link = "up" THEN Append(monitoring, cs) ELSE monitoring

\* the characteristics are listed in the i-th connect block: the refs are set
\* from the ones found, then HELLO is sent and the notify characteristic is
\* monitored
Resolve(i, txFound, rxFound) ==
    /\ i \in 1..Len(connPc)
    /\ connPc[i].pc = "resolve"
    /\ link = "up"
    /\ LET tx == IF txFound THEN "tx" ELSE txCharRef
           rx == IF rxFound THEN "rx" ELSE rxCharRef
           h == SendCommand(Core, rx, TRUE, "HELLO")
       IN  /\ txCharRef' = tx
           /\ rxCharRef' = rx
           /\ IF variant = "hooks"
              THEN /\ Commit(h)
                   /\ monitoring' = IF tx # NULL THEN Subscribed(NULL)
                                    ELSE monitoring
                   /\ connPc' = Without(connPc, i)
                   /\ UNCHANGED connectionState
                   /\ lastOp' = Op("resolve", "HELLO", activeCommandRef, h)
              ELSE IF tx = NULL \/ rx = NULL
              THEN /\ connectionState' = "disconnected"
                   /\ connPc' = Without(connPc, i)
                   /\ UNCHANGED << cmdVars, monitoring >>
                   /\ lastOp' = Op("resolve", NULL, activeCommandRef, NoH)
              ELSE IF h.written = << >>
              THEN /\ Commit(h)
                   /\ monitoring' = Subscribed(connPc[i].cs)
                   /\ connPc' = Without(connPc, i)
                   /\ UNCHANGED connectionState
                   /\ lastOp' = Op("resolve", "HELLO", activeCommandRef, h)
              ELSE /\ Commit([h EXCEPT !.pw = Awaited(@)])
                   /\ connPc' = [connPc EXCEPT ![i].pc = "hello"]
                   /\ UNCHANGED << connectionState, monitoring >>
                   /\ lastOp' = Op("resolve", "HELLO", activeCommandRef, h)
    /\ UNCHANGED << variant, isConnected, isScanning, error, scanOn, link,
                    retryTimer, scanCb, radioOn, lineBufferRef, now, wire,
                    timers, resp, storeVars, frameVars, budget >>

\* the transport reports the device gone: every onDisconnected callback
\* registered on it runs (each was registered together with a monitor), and
\* in part001 each arms its reconnect timer.  Writes not yet acknowledged can
\* only fail from here on, and what the device had still to send is lost.
Disconnect ==
    /\ link = "up"
    /\ monitoring # << >>
    /\ link' = "down"
    /\ monitoring' = << >>
    /\ wire' = << >>
    /\ pendingWrites' = [i \in 1..Len(pendingWrites) |->
                            [pendingWrites[i] EXCEPT !.ok = FALSE]]
    /\ isConnected' = FALSE
    /\ connectionState' = "disconnected"
    /\ IF variant = "hooks"
       THEN UNCHANGED << txCharRef, rxCharRef, retryTimer >>
       ELSE /\ txCharRef' = NULL
            /\ rxCharRef' = NULL
            /\ retryTimer' = retryTimer \o monitoring
    /\ lastOp' = Op("disconnect", NULL, activeCommandRef, NoH)
    /\ UNCHANGED << variant, isScanning, error, scanOn, connPc, scanCb,
                    radioOn, activeCommandRef, freedBy, sensorLogData,
                    statusLogData, dataDirty, lineBufferRef, now, timers,
                    resp, storeVars, frameVars, budget >>

\* part001: the i-th 4000 ms reconnect timer fires.  Its closure holds the
\* connectionState, and the connectAndListen, of the render that started
\* the lost connection.
RetryFire(i) ==
    /\ i \in 1..Len(retryTimer)
    /\ IF retryTimer[i] \notin {"connected", "connecting"}
       THEN /\ ConnectAndListenBody(retryTimer[i])
            /\ retryTimer' = Without(retryTimer, i)
       ELSE /\ retryTimer' = Without(retryTimer, i)
            /\ UNCHANGED connVars
    /\ lastOp' = Op("retry", NULL, activeCommandRef, NoH)
    /\ UNCHANGED << variant, cmdVars, lineBufferRef, now, wire, timers, resp,
                    storeVars, frameVars, budget >>

-----------------------------------------------------------------------------
(* Commands: the callers of sendCommand, the write's outcome, the deadline *)

SendStep(op, cmd) ==
    LET h == SendCommand(Core, rxCharRef, link = "up", cmd) IN
    /\ Commit(h)
    /\ lastOp' = Op(op, cmd, activeCommandRef, h)
    /\ UNCHANGED << variant, lifeVars, lineBufferRef, now, wire, timers,
                    resp, storeVars, frameVars, budget >>

\* the hook's interval (7000 ms): GET when connected and the slot is free
AutoGet ==
    /\ isConnected
    /\ activeCommandRef = NULL
    /\ SendStep("sendCommand", "GET")

\* the App's interval (3000 ms) while connected: sendCommand('GET')
AppGet ==
    /\ isConnected
    /\ SendStep("sendCommand", "GET")

\* the first connect block waiting at `await sendCommand('HELLO')`
HelloBlock == CHOOSE i \in 1..Len(connPc) :
                  /\ connPc[i].pc = "hello"
                  /\ \A j \in 1..(i - 1) : connPc[j].pc # "hello"

\* the continuation of `await sendCommand('HELLO')` in part001's connect
\* block: the notify characteristic is monitored; with the ref cleared by a
\* disconnect in the meantime the call throws into the catch block
AfterHello(w) ==
    IF w.aw
    THEN /\ connPc' = Without(connPc, HelloBlock)
         /\ IF txCharRef = NULL
            THEN ConnectCatch /\ UNCHANGED monitoring
            ELSE /\ monitoring' = Subscribed(connPc[HelloBlock].cs)
                 /\ UNCHANGED << error, connectionState, isScanning >>
    ELSE UNCHANGED << monitoring, connPc, error, connectionState,
                      isScanning >>

\* writeWithResponse resolves: the deadline timer of the command is armed
\* (6000 ms; part001 arms 2000 ms for CLEAR)
WriteAck ==
    /\ pendingWrites # << >>
    /\ Head(pendingWrites).ok
    /\ link = "up"
    /\ timers[Head(pendingWrites).cmd] < MaxTimers
    /\ pendingWrites' = Tail(pendingWrites)
    /\ timers' = [timers EXCEPT ![Head(pendingWrites).cmd] = @ + 1]
    /\ AfterHello(Head(pendingWrites))
    /\ lastOp' = Op("writeAck", Head(pendingWrites).cmd, activeCommandRef, NoH)
    /\ UNCHANGED << variant, isConnected, txCharRef, rxCharRef, scanOn,
                    scanCb, radioOn, link, retryTimer,
                    activeCommandRef, freedBy, sensorLogData, statusLogData,
                    dataDirty, lineBufferRef, now, wire, resp, storeVars,
                    frameVars, budget >>

\* writeWithResponse rejects: the catch block frees the slot
WriteFail ==
    /\ pendingWrites # << >>
    /\ pendingWrites' = Tail(pendingWrites)
    /\ activeCommandRef' = NULL
    /\ freedBy' = IF activeCommandRef # NULL THEN "writeError" ELSE freedBy
    /\ AfterHello(Head(pendingWrites))
    /\ lastOp' = Op("writeFail", Head(pendingWrites).cmd, activeCommandRef, NoH)
    /\ IF activeCommandRef # NULL THEN Disturb ELSE UNCHANGED resp
    /\ UNCHANGED << variant, isConnected, txCharRef, rxCharRef, scanOn,
                    scanCb, radioOn, link, retryTimer,
                    sensorLogData, statusLogData, dataDirty, lineBufferRef,
                    now, wire, timers, storeVars, frameVars, budget >>

\* a deadline that leaves the slot as it is
TimerFireKeep(cmd) ==
    /\ timers[cmd] > 0
    /\ timers' = [timers EXCEPT ![cmd] = @ - 1]
    /\ lastOp' = Op("timeout", cmd, activeCommandRef, NoH)
    /\ UNCHANGED << variant, lifeVars, cmdVars, lineBufferRef, now, wire,
                    resp, storeVars, frameVars, budget >>

\* a deadline timer armed for cmd fires
TimerFire(cmd) ==
    /\ timers[cmd] > 0
    /\ timers' = [timers EXCEPT ![cmd] = @ - 1]
    /\ IF activeCommandRef = cmd
       THEN /\ activeCommandRef' = NULL
            /\ freedBy' = "timeout"
            /\ Disturb
       ELSE UNCHANGED << activeCommandRef, freedBy, resp >>
    /\ lastOp' = Op("timeout", cmd, activeCommandRef, NoH)
    /\ UNCHANGED << variant, lifeVars, pendingWrites, sensorLogData,
                    statusLogData, dataDirty, lineBufferRef, now, wire,
                    storeVars, frameVars, budget >>

-----------------------------------------------------------------------------
(* Notifications *)

\* "1,5\n2,7\nEND\n": two readings and the end of the response
StreamGet ==
    << "1", ",", "5", NL, "2", ",", "7", NL, "E", "N", "D", NL >>
\* "no,a\n4,3\n": a line that is no reading, then a reading
StreamBad == << "n", "o", ",", "a", NL, "4", ",", "3", NL >>
\* ",5\n6,\n": an empty first field, an empty second field
StreamEmpty == << ",", "5", NL, "6", ",", NL >>
\* "hi\nEND\nend\n": a status line and two sentinels, the second lower-case
StreamStatus == << "h", "i", NL, "E", "N", "D", NL, "e", "n", "d", NL >>
\* "1,2END\n3": a reading line that holds END, then a partial line
StreamMixed == << "1", ",", "2", "E", "N", "D", NL, "3" >>

Streams == {StreamGet, StreamBad, StreamEmpty, StreamStatus, StreamMixed}

\* the device queues a text to notify
DeviceSend(s) ==
    /\ link = "up"
    /\ wire = << >>
    /\ budget.streams < MaxStreams
    /\ budget' = [budget EXCEPT !.streams = @ + 1]
    /\ wire' = s
    /\ resp' = [cmd |-> activeCommandRef, buf |-> lineBufferRef,
                stream |-> s, events |-> << >>, open |-> TRUE,
                clean |-> TRUE, split |-> FALSE]
    /\ lastOp' = Op("deviceSend", NULL, activeCommandRef, NoH)
    /\ UNCHANGED << variant, lifeVars, cmdVars, lineBufferRef, now, timers,
                    storeVars, frameVars >>

RECURSIVE Deliver(_, _, _, _)
\* the notification `text` is handed to each of the n monitor callbacks
\* subscribed, one after the other
Deliver(n, buf, h, text) ==
    IF n = 0 THEN [buf |-> buf, h |-> h]
    ELSE LET r == MonitorCallback(variant, buf, h, rxCharRef, link = "up",
                                  text, now)
         IN  Deliver(n - 1, r.buf, r.h, text)

\* the monitor callbacks run on the next k characters of the wire
Notify(k) ==
    /\ monitoring # << >>
    /\ k \in 1..Len(wire)
    /\ LET r == Deliver(Len(monitoring), lineBufferRef, Core,
                        SubSeq(wire, 1, k))
       IN  /\ lineBufferRef' = r.buf
           /\ Commit(r.h)
           /\ lastOp' = Op("notify", NULL, activeCommandRef, r.h)
           /\ resp' = IF resp.open
                      THEN [resp EXCEPT !.events = @ \o LineEvents(r.h.lines),
                                        !.open = (k < Len(wire)),
                                        !.split = (@ \/ r.buf # << >>)]
                      ELSE resp
    /\ wire' = SubSeq(wire, k + 1, Len(wire))
    /\ UNCHANGED << variant, lifeVars, now, timers, storeVars, frameVars,
                    budget >>

\* a notification with no subscriber is dropped
Lose ==
    /\ link = "up"
    /\ monitoring = << >>
    /\ wire # << >>
    /\ wire' = << >>
    /\ lastOp' = Op("lose", NULL, activeCommandRef, NoH)
    /\ UNCHANGED << variant, lifeVars, cmdVars, lineBufferRef, now, timers,
                    resp, storeVars, frameVars, budget >>

\* The protocol specification follows the hook through the connections its
\* caller asks for; sendCommand is called where the repository calls it
\* (HELLO on connecting, the two GET intervals, the CLEAR after a sentinel).
Next ==
    \/ ConnectAndListen
    \/ \E i \in 1..Len(connPc) : PowerCheck(i)
    \/ ScanError
    \/ ScanMatch
    \/ \E i \in 1..Len(connPc) : AttachOk(i)
    \/ \E i \in 1..Len(connPc) : AttachFail(i)
    \/ \E i \in 1..Len(connPc), txFound, rxFound \in BOOLEAN :
          Resolve(i, txFound, rxFound)
    \/ Disconnect
    \/ AutoGet
    \/ AppGet
    \/ WriteAck
    \/ WriteFail
    \/ \E cmd \in Commands : TimerFire(cmd)
    \/ \E s \in Streams : DeviceSend(s)
    \/ \E k \in 1..Len(wire) : Notify(k)
    \/ Lose

Spec == Init /\ [][Next]_vars

-----------------------------------------------------------------------------
(* Properties of the command coordinator *)

\* a step in which sendCommand was called: by one of the GET intervals, or
\* with HELLO by the connect block
SendCalled ==
    \/ lastOp'.op = "sendCommand"
    \/ lastOp'.op = "resolve" /\ lastOp'.cmd = "HELLO"

\* C1: the slot holds at most one command: every write sendCommand starts
\* finds the slot empty and puts its own command there, and a sendCommand
\* called while the slot is occupied starts no write and leaves the command
\* in the slot, the pending writes and the armed deadline timers as they were.
C1_SingleInFlight ==
    [][ SendCalled =>
          /\ lastOp'.written # << >> =>
                /\ activeCommandRef = NULL
                /\ lastOp'.written = << lastOp'.cmd >>
                /\ activeCommandRef' = lastOp'.cmd
          /\ activeCommandRef # NULL =>
                /\ lastOp'.written = << >>
                /\ activeCommandRef' = activeCommandRef
                /\ pendingWrites' = pendingWrites
                /\ timers' = timers ]_vars

\* sendCommand was called while a command was in flight with its deadline
\* armed, and both are still there
C1_Witness ==
    /\ lastOp.op = "sendCommand"
    /\ lastOp.slot # NULL
    /\ lastOp.written = << >>
    /\ activeCommandRef = lastOp.slot
    /\ timers[lastOp.slot] > 0

\* C2: a sentinel line handled while a command other than CLEAR is in
\* flight releases the slot and starts exactly one write, of CLEAR (which
\* then holds the slot); handled while CLEAR is in flight it releases the
\* slot and starts no write.
C2_SentinelChain ==
    LET l == lastOp.line IN
    l.kind = "sentinel" =>
        /\ l.cmd \in Commands \ {"CLEAR"} =>
              l.written = << "CLEAR" >> /\ l.slotAfter = "CLEAR"
        /\ l.cmd = "CLEAR" =>
              l.written = << >> /\ l.slotAfter = NULL

\* the lower-case sentinel that answers the chained CLEAR has been handled
C2_Witness ==
    /\ lastOp.line.kind = "sentinel"
    /\ lastOp.line.text = << "e", "n", "d" >>
    /\ lastOp.line.cmd = "CLEAR"
    /\ activeCommandRef = NULL
    /\ freedBy = "sentinel"

\* C3: the deadline of the command in flight releases the slot and starts no
\* write, and a sendCommand called once a deadline has released the slot,
\* with a write characteristic attached, takes the slot and starts its write.
C3_DeadlineReleases ==
    [][ /\ (lastOp'.op = "timeout" /\ timers' # timers
                /\ activeCommandRef = lastOp'.cmd) =>
              /\ activeCommandRef' = NULL
              /\ freedBy' = "timeout"
              /\ pendingWrites' = pendingWrites
        /\ (lastOp'.op = "sendCommand" /\ activeCommandRef = NULL
                /\ freedBy = "timeout" /\ rxCharRef # NULL) =>
              /\ activeCommandRef' = lastOp'.cmd
              /\ lastOp'.written = << lastOp'.cmd >>
              /\ Len(pendingWrites') = Len(pendingWrites) + 1
              /\ pendingWrites'[Len(pendingWrites')].cmd = lastOp'.cmd ]_vars

\* a GET was accepted after a deadline had released the slot
C3_Witness ==
    /\ lastOp.op = "sendCommand"
    /\ lastOp.slot = NULL
    /\ freedBy = "timeout"
    /\ lastOp.written = << "GET" >>
    /\ activeCommandRef = "GET"

\* a response to GET: lines of digits, a comma and digits, then END
IsGetResponse(s) ==
    LET ls == Split(s, NL) IN
    /\ Len(ls) >= 3
    /\ ls[Len(ls)] = << >>
    /\ ls[Len(ls) - 1] = << "E", "N", "D" >>
    /\ \A i \in 1..(Len(ls) - 2) :
          LET f == Split(ls[i], ",") IN
          Len(f) = 2 /\ AllDigits(f[1]) /\ AllDigits(f[2])

\* what the response must cause: one append per reading line, in the order
\* of the lines, then the release of GET, then the write of CLEAR
ResponseTrace(s) ==
    LET ls == Split(s, NL)
        n == Len(ls) - 2
    IN  [i \in 1..n |->
            LET f == Split(ls[i], ",") IN
            [e |-> "append", cmd |-> NULL, ts |-> Num(DecimalValue(f[1])),
             val |-> Num(DecimalValue(f[2]))]]
        \o << Event("release", "GET", NoReading),
              Event("write", "CLEAR", NoReading) >>

\* C5: when a response to GET has been handled from an empty buffer, with
\* the slot left to handleTX meanwhile, what happened is the appends of its
\* readings in line order, then the release of the slot, then the write of
\* CLEAR, whatever the notifications it arrived in.
C5_GetResponse ==
    (/\ resp.cmd = "GET"
     /\ resp.buf = << >>
     /\ ~resp.open
     /\ resp.clean
     /\ IsGetResponse(resp.stream)) =>
        resp.events = ResponseTrace(resp.stream)

\* a response to GET was handled to its end, a notification having ended
\* inside a line
C5_Witness ==
    /\ resp.cmd = "GET"
    /\ resp.buf = << >>
    /\ ~resp.open
    /\ resp.clean
    /\ resp.split
    /\ resp.stream = StreamGet
    /\ Len(resp.events) = 4
    /\ Len(sensorLogData) >= 2
    /\ activeCommandRef = "CLEAR"

\* a field that is there, is not empty and is a decimal number
NumericField(f) == Trim(f) # << >> /\ NumberOfText(f).k = "num"

\* C6: a line adds readings only if its first two fields are both numbers
\* (a line with a non-numeric, empty or missing field adds none), whatever
\* the command in flight.
C6_OnlyNumericAccepted ==
    LET l == lastOp.line
        f == FirstTwoFields(l.text)
    IN  l.kind = "readings" =>
            NumericField(f.ts) /\ f.hasVal /\ NumericField(f.val)

\* a line with a field that is no number was handled with GET in flight
C6_Witness ==
    /\ lastOp.line.cmd = "GET"
    /\ lastOp.line.text \in {<< "n", "o", ",", "a" >>, << ",", "5" >>}

-----------------------------------------------------------------------------
(* The reassembler on arbitrary chunks *)

FrameAlphabet == {"7", ",", NL}

\* every text over the alphabet of length 1..n
Chunks(n) == UNION {[1..m -> FrameAlphabet] : m \in 1..n}

RECURSIVE Texts(_)
Texts(ls) == IF ls = << >> THEN << >> ELSE << Head(ls).text >> \o Texts(Tail(ls))

\* the monitor callback is called with the decoded chunk `text`
Feed(text) ==
    /\ Len(fed) + Len(text) <= MaxFed
    /\ LET r == MonitorCallback(variant, lineBufferRef, Core, rxCharRef,
                                link = "up", text, now)
       IN  /\ lineBufferRef' = r.buf
           /\ Commit(r.h)
           /\ lastOp' = Op("notify", NULL, activeCommandRef, r.h)
           /\ delivered' = delivered \o Texts(r.h.lines)
           /\ resp' = [resp EXCEPT !.split = (@ \/ r.buf # << >>)]
    /\ fed' = fed \o text
    /\ UNCHANGED << variant, lifeVars, now, wire, timers, storeVars,
                    budget >>

NextFrame == \E text \in Chunks(MaxFed) : Feed(text)

SpecFrame == Init /\ [][NextFrame]_vars

RECURSIVE Rejoin(_)
\* the lines, each followed by a newline, one after the other
Rejoin(ls) ==
    IF ls = << >> THEN << >> ELSE Head(ls) \o << NL >> \o Rejoin(Tail(ls))

\* C4: the lines handed to handleTX so far, each followed by a newline, in
\* the order they were handed over, followed by the buffer kept, are the
\* chunks received so far one after the other.
C4_Conservation == Rejoin(delivered) \o lineBufferRef = fed

\* a chunk ended inside a line, a later chunk completed it, and since then
\* the buffer is empty again
C4_Witness ==
    /\ resp.split
    /\ Len(delivered) >= 2
    /\ delivered[Len(delivered)] # << >>
    /\ lineBufferRef = << >>

-----------------------------------------------------------------------------
(* The stats effect *)

\* new Date(y, m, d).getTime() for the date of t (local time taken as UTC)
StartOfDay(t) == t - (t % DayMs)

\* sensorLogData.filter(r => r.receivedAt >= startOfDay && r.receivedAt < endOfDay)
TodayReadings(data, t) ==
    SelectSeq(data, LAMBDA r : /\ r.receivedAt >= StartOfDay(t)
                               /\ r.receivedAt < StartOfDay(t) + DayMs)

RECURSIVE SumIntensities(_, _)
\* intensities.reduce((a, b) => a + b, acc)
SumIntensities(acc, rs) ==
    IF rs = << >> THEN acc
    ELSE SumIntensities(Plus(acc, Head(rs).intensity), Tail(rs))

RECURSIVE MathMax(_, _)
\* Math.max(...intensities): NaN as soon as one argument is NaN
MathMax(acc, rs) ==
    IF rs = << >> THEN acc
    ELSE LET x == ToNumber(Head(rs).intensity) IN
         IF acc.k = "nan" \/ x.k = "nan" THEN NaN
         ELSE MathMax(IF Greater(x, acc) THEN x ELSE acc, Tail(rs))

RECURSIVE MaxReading(_, _)
\* todayReadings.reduce((max, r) => r.intensity > max.intensity ? r : max, max)
MaxReading(max, rs) ==
    IF rs = << >> THEN max
    ELSE MaxReading(IF Greater(Head(rs).intensity, max.intensity)
                    THEN Head(rs) ELSE max, Tail(rs))

ZeroStats ==
    [totalExposure |-> Zero, avgIntensity |-> Zero, maxIntensity |-> Zero,
     latestIntensity |-> Zero, numberReadings |-> Zero, peakTime |-> Zero]

\* hooks, with the whole reading set in place of today's readings
StatsEffectLifetime(data, t) ==
    IF data = << >> THEN ZeroStats
    ELSE LET totalExposure == SumIntensities(Zero, data) IN
         [totalExposure |-> totalExposure,
          avgIntensity |-> DivInt(totalExposure, Len(data)),
          maxIntensity |-> MathMax(ToNumber(data[1].intensity), Tail(data)),
          latestIntensity |-> data[Len(data)].intensity,
          numberReadings |-> Num(Len(data)),
          peakTime |-> Num(MaxReading(data[1], data).receivedAt)]

\* hooks: the stats effect on the reading set `data` at time t
StatsEffectHooks(data, t) ==
    LET todayReadings == TodayReadings(data, t) IN
    IF data = << >> THEN ZeroStats
    ELSE IF todayReadings = << >> THEN ZeroStats
    ELSE LET totalExposure == SumIntensities(Zero, todayReadings) IN
         [totalExposure |-> totalExposure,
          avgIntensity |-> DivInt(totalExposure, Len(todayReadings)),
          maxIntensity |-> MathMax(ToNumber(todayReadings[1].intensity),
                                   Tail(todayReadings)),
          latestIntensity |-> todayReadings[Len(todayReadings)].intensity,
          numberReadings |-> Num(Len(todayReadings)),
          peakTime |-> Num(MaxReading(todayReadings[1],
                                      todayReadings).receivedAt)]

\* part001: the stats effect; the object it sets has four fields
StatsEffectPart001(data, t) ==
    IF data = << >>
    THEN [ZeroStats EXCEPT !.numberReadings = Undefined,
                           !.peakTime = Undefined]
    ELSE LET totalExposure == SumIntensities(Zero, data) IN
         [totalExposure |-> totalExposure,
          avgIntensity |-> DivInt(totalExposure, Len(data)),
          maxIntensity |-> MathMax(ToNumber(data[1].intensity), Tail(data)),
          latestIntensity |-> data[Len(data)].intensity,
          numberReadings |-> Undefined,
          peakTime |-> Undefined]

StatsEffectOf(v, data, t) ==
    IF v = "hooks" THEN StatsEffectHooks(data, t)
    ELSE StatsEffectPart001(data, t)

\* hooks: the storage effect; part001 has none
StorageEffectOf(v, data) ==
    IF v = "hooks" THEN [totalReadings |-> Num(Len(data))]
    ELSE InitialStorageStats(v)

\* the first days of December 1969 to April 1970, in days since 1 January
\* 1970 (the dates the clock of the model can reach, and the month before)
MonthStarts == {0 - 31, 0, 31, 59, 90}

\* new Date(y, m, 1) for the month of day d, and for the month after it
StartOfMonth(d) ==
    CHOOSE m \in MonthStarts :
        m <= d /\ \A k \in MonthStarts : k <= d => k <= m
EndOfMonth(d) ==
    CHOOSE m \in MonthStarts :
        m > d /\ \A k \in MonthStarts : k > d => m <= k

\* Date.getDay(): 0 is Sunday; 1 January 1970 was a Thursday
GetDay(d) == (d + 4) % 7

\* now.getDate() - day + (day === 0 ? -6 : 1), as a day since 1 January 1970
MondayOf(d) == d - GetDay(d) + (IF GetDay(d) = 0 THEN 0 - 6 ELSE 1)

\* data.filter(r => r.receivedAt >= from && r.receivedAt < to).length for
\* the midnights that start the days `from` and `to` (a time is at or after
\* a midnight exactly when its day is at or after that day; the days are
\* compared because the milliseconds of a month exceed TLC's integers)
CountIn(data, from, to) ==
    Len(SelectSeq(data, LAMBDA r : /\ r.receivedAt \div DayMs >= from
                                   /\ r.receivedAt \div DayMs < to))

\* hooks: the time-range effect on the reading set `data` at time t.
\* now.setDate(diff) moves `now` itself to the Monday, so the month taken
\* afterwards is the month of that Monday
TimeRangeEffectHooks(data, t) ==
    IF data = << >>
    THEN [readingsToday |-> Zero, readingsWeek |-> Zero,
          readingsMonth |-> Zero]
    ELSE LET startDay == t \div DayMs
             endDay == startDay + 1
             startWeek == MondayOf(t \div DayMs)
             endWeek == startWeek + 7
             startMonth == StartOfMonth(startWeek)
             endMonth == EndOfMonth(startWeek)
         IN  [readingsToday |-> Num(CountIn(data, startDay, endDay)),
              readingsWeek |-> Num(CountIn(data, startWeek, endWeek)),
              readingsMonth |-> Num(CountIn(data, startMonth, endMonth))]

TimeRangeEffectOf(v, data, t) ==
    IF v = "hooks" THEN TimeRangeEffectHooks(data, t)
    ELSE InitialTimeRangeStats(v)

\* the intensities of the readings handleTX appends: numbers, and in hooks
\* NaN as well (a field that is no number, converted by Number)
Intensities(v) ==
    {Num(1), Num(2), Num(3)} \cup (IF v = "hooks" THEN {NaN} ELSE {})

\* handleTX appends a reading received now
ReadingAppended(x) ==
    /\ Len(sensorLogData) < MaxReadings
    /\ sensorLogData' = Append(sensorLogData,
                               [deviceTimestamp |-> Num(Len(sensorLogData)),
                                intensity |-> x, receivedAt |-> now])
    /\ dataDirty' = TRUE
    /\ statsFresh' = FALSE
    /\ budget' = [budget EXCEPT !.lines = @ + 1]
    /\ lastOp' = Op("append", NULL, activeCommandRef, NoH)
    /\ UNCHANGED << variant, lifeVars, activeCommandRef, pendingWrites,
                    freedBy, statusLogData, lineBufferRef, now, wire, timers,
                    resp, stats, mounted, statsDirty, file, pendingSaves,
                    loadPc, clearPc, saveLost, frameVars,
                    derivedVars >>

\* the clock moves on: by a millisecond, or to the next midnight
ClockTick(toMidnight) ==
    /\ IF toMidnight
       THEN /\ now \div DayMs < MaxDay
            /\ now' = StartOfDay(now) + DayMs
       ELSE /\ now % DayMs = 0
            /\ now' = now + 1
    /\ statsFresh' = FALSE
    /\ lastOp' = Op("tick", NULL, activeCommandRef, NoH)
    /\ UNCHANGED << variant, lifeVars, cmdVars, lineBufferRef, wire, timers,
                    resp, stats, mounted, statsDirty, file, pendingSaves,
                    loadPc, clearPc, saveLost, frameVars, budget,
                    derivedVars >>

\* the stats effect runs: after the first render and after every render in
\* which sensorLogData changed
StatsEffect ==
    /\ ~mounted \/ dataDirty
    /\ stats' = StatsEffectOf(variant, sensorLogData, now)
    /\ storageStats' = StorageEffectOf(variant, sensorLogData)
    /\ timeRangeStats' = TimeRangeEffectOf(variant, sensorLogData, now)
    /\ mounted' = TRUE
    /\ dataDirty' = FALSE
    /\ statsFresh' = TRUE
    /\ lastOp' = Op("statsEffect", NULL, activeCommandRef, NoH)
    /\ UNCHANGED << variant, lifeVars, activeCommandRef, pendingWrites,
                    freedBy, sensorLogData, statusLogData, lineBufferRef, now,
                    wire, timers, resp, statsDirty, file, pendingSaves,
                    loadPc, clearPc, saveLost, frameVars, budget >>

NextStats ==
    \/ \E x \in Intensities(variant) : ReadingAppended(x)
    \/ \E toMidnight \in BOOLEAN : ClockTick(toMidnight)
    \/ StatsEffect

SpecStats == Init /\ [][NextStats]_vars

-----------------------------------------------------------------------------
(* Properties of the stats effect *)

StatsFields ==
    {"totalExposure", "avgIntensity", "maxIntensity", "latestIntensity",
     "numberReadings", "peakTime"}

\* the value of the Stats field f
Field(f) ==
    CASE f = "totalExposure" -> stats.totalExposure
      [] f = "avgIntensity" -> stats.avgIntensity
      [] f = "maxIntensity" -> stats.maxIntensity
      [] f = "latestIntensity" -> stats.latestIntensity
      [] f = "numberReadings" -> stats.numberReadings
      [] OTHER -> stats.peakTime

\* C7: once the stats effect has run for the reading set, avgIntensity is
\* totalExposure divided by numberReadings when numberReadings > 0, and each
\* of the six Stats fields is 0 when the reading set is empty.
C7_AverageAndZeroState ==
    statsFresh =>
        /\ Greater(stats.numberReadings, Zero) =>
              stats.avgIntensity
                  = DivInt(stats.totalExposure, stats.numberReadings.n)
        /\ sensorLogData = << >> => \A f \in StatsFields : Field(f) = Zero

\* the stats effect has run on an empty reading set and on a set of two
C7_Witness ==
    /\ statsFresh
    /\ Len(sensorLogData) = 2
    /\ stats.totalExposure = Num(3)
    /\ stats.avgIntensity = [k |-> "num", n |-> 3, d |-> 2]

\* the readings received on the day of t
SameDay(data, t) ==
    SelectSeq(data, LAMBDA r : r.receivedAt \div DayMs = t \div DayMs)

\* the sum of the intensities, from the last reading to the first
RECURSIVE Total(_)
Total(rs) ==
    IF rs = << >> THEN Zero
    ELSE Plus(rs[Len(rs)].intensity, Total(SubSeq(rs, 1, Len(rs) - 1)))

StrictEq(a, b) == a.k # "nan" /\ b.k # "nan" /\ a = b

\* m is the greatest of the intensities
IsMaxIntensity(m, data) ==
    /\ \E i \in 1..Len(data) : StrictEq(data[i].intensity, m)
    /\ \A i \in 1..Len(data) : ~Greater(data[i].intensity, m)

\* C9: for a reading set that is not empty, maxIntensity is the greatest
\* intensity, latestIntensity the intensity of the reading appended last, and
\* peakTime the receivedAt of the first reading whose intensity is
\* maxIntensity.
C9_MaxLatestPeak ==
    (statsFresh /\ variant = "hooks" /\ sensorLogData # << >>) =>
        /\ IsMaxIntensity(stats.maxIntensity, sensorLogData)
        /\ StrictEq(stats.latestIntensity,
                    sensorLogData[Len(sensorLogData)].intensity)
        /\ \E i \in 1..Len(sensorLogData) :
              /\ StrictEq(sensorLogData[i].intensity, stats.maxIntensity)
              /\ \A j \in 1..(i - 1) :
                    ~StrictEq(sensorLogData[j].intensity, stats.maxIntensity)
              /\ stats.peakTime = Num(sensorLogData[i].receivedAt)

\* hooks has aggregated three readings of one day, the greatest intensity
\* occurring twice at different times
C9_Witness ==
    /\ statsFresh
    /\ variant = "hooks"
    /\ Len(sensorLogData) = 3
    /\ Len(SameDay(sensorLogData, now)) = 3
    /\ sensorLogData[2].intensity = Num(3)
    /\ sensorLogData[3].intensity = Num(3)
    /\ sensorLogData[2].receivedAt # sensorLogData[3].receivedAt
    /\ stats.peakTime = Num(sensorLogData[2].receivedAt)

-----------------------------------------------------------------------------
(* Persistence: the load, stats and persist effects, clearSavedData *)

\* JSON.stringify of a number: NaN is written as null; a property whose
\* value is undefined is left out, and reads back as undefined
ToJSONNumber(x) == IF x.k = "nan" THEN Null ELSE x

ToJSONReadings(data) ==
    [i \in 1..Len(data) |->
        [deviceTimestamp |-> ToJSONNumber(data[i].deviceTimestamp),
         intensity |-> ToJSONNumber(data[i].intensity),
         receivedAt |-> data[i].receivedAt]]

ToJSONStats(st) ==
    [totalExposure |-> ToJSONNumber(st.totalExposure),
     avgIntensity |-> ToJSONNumber(st.avgIntensity),
     maxIntensity |-> ToJSONNumber(st.maxIntensity),
     latestIntensity |-> ToJSONNumber(st.latestIntensity),
     numberReadings |-> ToJSONNumber(st.numberReadings),
     peakTime |-> ToJSONNumber(st.peakTime)]

\* JSON.stringify({ readings: sensorLogData, stats })
Snapshot(data, st) ==
    [exists |-> TRUE, legacy |-> FALSE, hasReadings |-> TRUE,
     hasStats |-> TRUE, readings |-> ToJSONReadings(data),
     stats |-> ToJSONStats(st)]

\* the reading an earlier run received
StoredReading ==
    [deviceTimestamp |-> Num(9), intensity |-> Num(2), receivedAt |-> 0]

\* a snapshot whose stats are not the stats of its readings
StaleSnapshot(v) ==
    Snapshot(<< StoredReading >>,
             StatsEffectOf(v, << StoredReading, StoredReading >>, 0))

\* the file an earlier run left: none, a snapshot, the bare array of the old
\* format, a snapshot with stats of another reading set, an object with
\* only a stats field, an object with stats and an empty readings array, an
\* object with only a readings field
StoredFiles(v) ==
    {NoFile,
     Snapshot(<< StoredReading >>, StatsEffectOf(v, << StoredReading >>, 0)),
     [NoFile EXCEPT !.exists = TRUE, !.legacy = TRUE,
                    !.readings = << StoredReading >>],
     StaleSnapshot(v),
     [StaleSnapshot(v) EXCEPT !.hasReadings = FALSE, !.readings = << >>],
     [StaleSnapshot(v) EXCEPT !.readings = << >>],
     [StaleSnapshot(v) EXCEPT !.hasStats = FALSE]}

\* setStats({}) in hooks, the three initial fields in part001
ClearedStats(v) ==
    IF v = "hooks"
    THEN [totalExposure |-> Undefined, avgIntensity |-> Undefined,
          maxIntensity |-> Undefined, latestIntensity |-> Undefined,
          numberReadings |-> Undefined, peakTime |-> Undefined]
    ELSE InitialStats(v)

hookVars == << variant, lifeVars, activeCommandRef, pendingWrites, freedBy,
               statusLogData, lineBufferRef, now, wire, timers, resp,
               frameVars, statsFresh, budget >>

\* the first render commits and its effects run in the order they are
\* declared: the load effect starts getInfoAsync, the stats effect sets the
\* stats of the empty set, the persist effect starts a write of what this
\* render holds
Mount ==
    /\ ~mounted
    /\ mounted' = TRUE
    /\ loadPc' = "info"
    /\ pendingSaves' = Append(pendingSaves, Snapshot(sensorLogData, stats))
    /\ stats' = StatsEffectOf(variant, sensorLogData, now)
    /\ storageStats' = StorageEffectOf(variant, sensorLogData)
    /\ timeRangeStats' = TimeRangeEffectOf(variant, sensorLogData, now)
    /\ statsDirty' = TRUE
    /\ dataDirty' = FALSE
    /\ lastOp' = Op("mount", NULL, activeCommandRef, NoH)
    /\ UNCHANGED << hookVars, sensorLogData, file, clearPc, saveLost >>

\* a render after sensorLogData or stats was set commits: if sensorLogData
\* changed the stats effect sets new stats (a new object, so another render
\* follows), and the persist effect starts a write of the readings and the
\* stats this render holds
Render ==
    /\ mounted
    /\ dataDirty \/ statsDirty
    /\ Len(pendingSaves) < MaxPendingSaves
    /\ pendingSaves' = Append(pendingSaves, Snapshot(sensorLogData, stats))
    /\ stats' = IF dataDirty THEN StatsEffectOf(variant, sensorLogData, now)
                ELSE stats
    /\ storageStats' = IF dataDirty
                       THEN StorageEffectOf(variant, sensorLogData)
                       ELSE storageStats
    /\ timeRangeStats' = IF dataDirty
                         THEN TimeRangeEffectOf(variant, sensorLogData, now)
                         ELSE timeRangeStats
    /\ statsDirty' = dataDirty
    /\ dataDirty' = FALSE
    /\ lastOp' = Op("render", NULL, activeCommandRef, NoH)
    /\ UNCHANGED << hookVars, sensorLogData, mounted, file, loadPc, clearPc,
                    saveLost >>

\* one of the writeAsStringAsync calls in progress resolves: the file is
\* what that call was given
SaveComplete(i) ==
    /\ i \in 1..Len(pendingSaves)
    /\ file' = pendingSaves[i]
    /\ pendingSaves' = Without(pendingSaves, i)
    /\ lastOp' = Op("saved", NULL, activeCommandRef, NoH)
    /\ UNCHANGED << hookVars, sensorLogData, stats, mounted, dataDirty,
                    statsDirty, loadPc, clearPc, saveLost,
                    derivedVars >>

\* one of the writeAsStringAsync calls rejects: the catch block logs it
SaveFail(i) ==
    /\ i \in 1..Len(pendingSaves)
    /\ pendingSaves' = Without(pendingSaves, i)
    /\ saveLost' = TRUE
    /\ lastOp' = Op("saveFailed", NULL, activeCommandRef, NoH)
    /\ UNCHANGED << hookVars, sensorLogData, stats, mounted, dataDirty,
                    statsDirty, file, loadPc, clearPc,
                    derivedVars >>

\* getInfoAsync resolves
LoadInfo ==
    /\ loadPc = "info"
    /\ loadPc' = IF file.exists THEN "read" ELSE "done"
    /\ lastOp' = Op("loadInfo", NULL, activeCommandRef, NoH)
    /\ UNCHANGED << hookVars, sensorLogData, stats, mounted, dataDirty,
                    statsDirty, file, pendingSaves, clearPc, saveLost,
                    derivedVars >>

\* a load that takes the stats of an object only together with its readings
LoadReadCoupled ==
    /\ loadPc = "read"
    /\ loadPc' = "done"
    /\ IF ~file.exists
       THEN UNCHANGED << sensorLogData, stats, dataDirty, statsDirty >>
       ELSE /\ IF file.legacy \/ file.hasReadings
               THEN sensorLogData' = file.readings /\ dataDirty' = TRUE
               ELSE UNCHANGED << sensorLogData, dataDirty >>
            /\ IF ~file.legacy /\ file.hasStats /\ file.hasReadings
               THEN stats' = file.stats /\ statsDirty' = TRUE
               ELSE UNCHANGED << stats, statsDirty >>
    /\ lastOp' = Op("loadRead", NULL, activeCommandRef, NoH)
    /\ UNCHANGED << hookVars, mounted, file, pendingSaves, clearPc,
                    saveLost,
                    derivedVars >>

\* readAsStringAsync resolves and the text is parsed: a bare array replaces
\* the readings; of an object the readings field, if it has one, replaces
\* the readings and the stats field, if it has one, replaces the stats; with
\* the file gone the read rejects and the catch block logs it
LoadRead ==
    /\ loadPc = "read"
    /\ loadPc' = "done"
    /\ IF ~file.exists
       THEN UNCHANGED << sensorLogData, stats, dataDirty, statsDirty >>
       ELSE /\ IF file.legacy \/ file.hasReadings
               THEN sensorLogData' = file.readings /\ dataDirty' = TRUE
               ELSE UNCHANGED << sensorLogData, dataDirty >>
            /\ IF ~file.legacy /\ file.hasStats
               THEN stats' = file.stats /\ statsDirty' = TRUE
               ELSE UNCHANGED << stats, statsDirty >>
    /\ lastOp' = Op("loadRead", NULL, activeCommandRef, NoH)
    /\ UNCHANGED << hookVars, mounted, file, pendingSaves, clearPc,
                    saveLost,
                    derivedVars >>

\* getInfoAsync or readAsStringAsync rejects, or JSON.parse throws on the
\* text: the catch block logs it
LoadFail ==
    /\ loadPc \in {"info", "read"}
    /\ loadPc' = "done"
    /\ lastOp' = Op("loadFailed", NULL, activeCommandRef, NoH)
    /\ UNCHANGED << hookVars, sensorLogData, stats, mounted, dataDirty,
                    statsDirty, file, pendingSaves, clearPc, saveLost,
                    derivedVars >>

\* clearSavedData is called: deleteAsync starts
ClearSavedData ==
    /\ mounted
    /\ clearPc = "none"
    /\ clearPc' = "deleting"
    /\ lastOp' = Op("clearSavedData", NULL, activeCommandRef, NoH)
    /\ UNCHANGED << hookVars, sensorLogData, stats, mounted, dataDirty,
                    statsDirty, file, pendingSaves, loadPc, saveLost,
                    derivedVars >>

\* deleteAsync resolves: the file is gone, the readings and the stats are
\* reset
ClearDone ==
    /\ clearPc = "deleting"
    /\ clearPc' = "cleared"
    /\ file' = NoFile
    /\ sensorLogData' = << >>
    /\ stats' = ClearedStats(variant)
    /\ dataDirty' = TRUE
    /\ statsDirty' = TRUE
    /\ lastOp' = Op("cleared", NULL, activeCommandRef, NoH)
    /\ UNCHANGED << hookVars, mounted, pendingSaves, loadPc, saveLost,
                    derivedVars >>

\* a clearSavedData that resets the readings and the stats before it awaits
\* deleteAsync, so that they are reset when the delete rejects
ClearFailResets ==
    /\ clearPc = "deleting"
    /\ clearPc' = "failed"
    /\ sensorLogData' = << >>
    /\ stats' = ClearedStats(variant)
    /\ dataDirty' = TRUE
    /\ statsDirty' = TRUE
    /\ lastOp' = Op("clearFailed", NULL, activeCommandRef, NoH)
    /\ UNCHANGED << hookVars, mounted, file, pendingSaves, loadPc, saveLost,
                    derivedVars >>

\* deleteAsync rejects: the catch block logs it
ClearFail ==
    /\ clearPc = "deleting"
    /\ clearPc' = "failed"
    /\ lastOp' = Op("clearFailed", NULL, activeCommandRef, NoH)
    /\ UNCHANGED << hookVars, sensorLogData, stats, mounted, dataDirty,
                    statsDirty, file, pendingSaves, loadPc, saveLost,
                    derivedVars >>

\* the intensities of the readings that arrive while the store is followed
StoreIntensities(v) == {Num(1)} \cup (IF v = "hooks" THEN {NaN} ELSE {})

InitStore ==
    /\ InitHook
    /\ now = 0
    /\ radioOn = TRUE
    /\ file \in StoredFiles(variant)

NextStore ==
    \/ Mount
    \/ Render
    \/ \E i \in 1..Len(pendingSaves) : SaveComplete(i)
    \/ \E i \in 1..Len(pendingSaves) : SaveFail(i)
    \/ LoadInfo
    \/ LoadRead
    \/ LoadFail
    \/ ClearSavedData
    \/ ClearDone
    \/ ClearFail
    \/ \E x \in StoreIntensities(variant) :
          mounted /\ budget.lines < MaxStoreLines /\ ReadingAppended(x)

SpecStore == InitStore /\ [][NextStore]_vars

\* nothing is left to render, no write is in progress, the load and the
\* clear have ended
Quiescent ==
    /\ mounted
    /\ ~dataDirty
    /\ ~statsDirty
    /\ pendingSaves = << >>
    /\ loadPc = "done"
    /\ clearPc # "deleting"

\* C10: once the readings and the stats have stopped changing and every
\* write started has completed, the file holds the readings and the stats in
\* memory, whatever the order in which the writes completed.
C10_SnapshotMatchesMemory ==
    (Quiescent /\ ~saveLost) =>
        /\ file.exists
        /\ ~file.legacy
        /\ file.readings = sensorLogData
        /\ file.stats = stats

\* two writes were started for one change and both have completed
C10_Witness ==
    /\ Quiescent
    /\ ~saveLost
    /\ sensorLogData # << >>
    /\ file.exists
    /\ file.readings = sensorLogData
    /\ file.stats # stats

\* what a load of the file would put into sensorLogData
LoadedReadings == IF file.exists THEN file.readings ELSE << >>

\* C11: once clearSavedData has deleted the file, no reading has arrived
\* since and every write started has completed, a load of the file yields
\* no reading, also when the write of a non-empty set was in progress while
\* the file was deleted.
C11_ClearedStoreLoadsEmpty ==
    (Quiescent /\ ~saveLost /\ clearPc = "cleared" /\ sensorLogData = << >>)
        => LoadedReadings = << >>

\* the file was deleted while a write of a non-empty set was in progress
C11_Witness ==
    /\ lastOp.op = "cleared"
    /\ \E i \in 1..Len(pendingSaves) : pendingSaves[i].readings # << >>

\* the time-range counts of an empty reading set
ZeroTimeRange ==
    [readingsToday |-> Zero, readingsWeek |-> Zero, readingsMonth |-> Zero]

\* C12: after clearSavedData has succeeded and the render that follows it has
\* run its effects, the reading set is empty, every Stats field is 0,
\* StorageStats.totalReadings is 0 and the three TimeRangeStats counts are 0.
C12_ClearedAllZero ==
    [][(lastOp.op = "cleared" /\ lastOp'.op = "render") =>
           /\ sensorLogData' = << >>
           /\ stats' = ZeroStats
           /\ storageStats'.totalReadings = Zero
           /\ timeRangeStats' = ZeroTimeRange]_vars

\* hooks: a reading had been stored, the clear succeeded and the effects of
\* the next render have set the zero state
C12_Witness ==
    /\ variant = "hooks"
    /\ clearPc = "cleared"
    /\ budget.lines = 1
    /\ lastOp.op = "render"
    /\ sensorLogData = << >>
    /\ stats = ZeroStats
    /\ storageStats.totalReadings = Zero
    /\ timeRangeStats = ZeroTimeRange

-----------------------------------------------------------------------------
(* The connection lifecycle on its own: the caller's requests, a radio that
   may be off, discoveries that arrive after the scan was stopped and
   part001's reconnect timers, the two GET intervals; the device sends
   nothing *)

InitLife ==
    /\ InitHook
    /\ now = 0
    /\ file = NoFile
    /\ radioOn \in BOOLEAN

NextLife ==
    \/ ConnectRequest(MaxRequests)
    \/ \E i \in 1..Len(connPc) : PowerCheck(i)
    \/ ScanError
    \/ ScanMatch
    \/ LateMatch
    \/ \E i \in 1..Len(connPc) : AttachOk(i)
    \/ \E i \in 1..Len(connPc) : AttachFail(i)
    \/ \E i \in 1..Len(connPc), txFound, rxFound \in BOOLEAN :
          Resolve(i, txFound, rxFound)
    \/ Disconnect
    \/ \E i \in 1..Len(retryTimer) : RetryFire(i)
    \/ AutoGet
    \/ AppGet
    \/ WriteAck
    \/ WriteFail
    \/ \E cmd \in Commands : TimerFire(cmd)

SpecLife == InitLife /\ [][NextLife]_vars

\* a connection is being set up or is up
InProgress == {"scanning", "connecting", "connected"}

\* C13: a connectAndListen call of the caller made while the connection state
\* is scanning, connecting or connected is a no-op: it starts no scan and
\* leaves the connection state and the scanning flag as they are.
C13_InProgressNoOp ==
    [][(budget'.connects = budget.connects + 1
        /\ connectionState \in InProgress) =>
           UNCHANGED << connectionState, isScanning, scanOn, scanCb,
                        connPc >>]_vars

\* the caller asked again while connected
C13_Witness ==
    /\ lastOp.op = "connectAndListen"
    /\ budget.connects = 2
    /\ link = "up"
    /\ isConnected

\* C14: one scan starts at most one connect attempt: a discovery of a matching
\* device that reaches the scan callback after the first match starts no
\* second connect block (and so no second notification subscription).
C14_OneConnectPerScan ==
    [][(budget'.late = budget.late + 1) => connPc' = connPc]_vars

\* one request, one scan, and two connect blocks waiting for device.connect()
C14_Witness ==
    /\ budget.connects = 1
    /\ budget.late = 1
    /\ lastOp.op = "lateMatch"
    /\ Len(connPc) = 2
    /\ \A i \in 1..2 : connPc[i].pc = "attach"

\* C15: in every reachable state, a connection state of connected, or a
\* connected flag that is true, implies that the write and the notify
\* characteristic handles are both set.
C15_ConnectedHasHandles ==
    (connectionState = "connected" \/ isConnected) =>
        (txCharRef # NULL /\ rxCharRef # NULL)

\* connected with both handles set and the notifications subscribed
C15_Witness ==
    /\ connectionState = "connected"
    /\ isConnected
    /\ txCharRef # NULL
    /\ rxCharRef # NULL
    /\ monitoring # << >>

\* C16: when the services list no notify or no write characteristic, the
\* connection state becomes disconnected with an error set, the
\* notifications are not subscribed and HELLO is not written.
C16_MissingCharacteristic ==
    [][(lastOp'.op = "resolve" /\ connPc' # connPc
        /\ (txCharRef' = NULL \/ rxCharRef' = NULL)) =>
           /\ connectionState' = "disconnected"
           /\ error' # NULL
           /\ monitoring' = monitoring
           /\ lastOp'.written = << >>]_vars

\* the characteristics were listed and one of them was not found
C16_Witness ==
    /\ lastOp.op = "resolve"
    /\ txCharRef = NULL \/ rxCharRef = NULL
    /\ monitoring = << >>

\* the writes a sendCommand('GET') called now with the slot free would start
WritesIfCalled ==
    SendCommand([Core EXCEPT !.active = NULL], rxCharRef, link = "up",
                "GET").written

\* C17: the step that handles a disconnect sets the connection state to
\* disconnected and clears both characteristic handles, so that from then
\* until the transport is connected again no sendCommand call starts a write.
C17_DisconnectClearsHandles ==
    /\ lastOp.op = "disconnect" =>
          /\ connectionState = "disconnected"
          /\ txCharRef = NULL
          /\ rxCharRef = NULL
    /\ link = "down" => WritesIfCalled = << >>

\* part001: a connection with both handles set was lost
C17_Witness ==
    /\ variant = "part001"
    /\ lastOp.op = "disconnect"
    /\ link = "down"
    /\ connectionState = "disconnected"
    /\ rxCharRef = NULL
    /\ retryTimer # << >>

\* Scheduling: an armed timer fires, and a promise of the transport settles
FairLife ==
    /\ WF_vars(\E i \in 1..Len(retryTimer) : RetryFire(i))
    /\ WF_vars(\E i \in 1..Len(connPc) : PowerCheck(i))
    /\ WF_vars(\E i \in 1..Len(connPc) : AttachOk(i) \/ AttachFail(i))
    /\ WF_vars(WriteAck \/ WriteFail)
    /\ WF_vars(\E cmd \in Commands : TimerFire(cmd))

SpecLifeFair == InitLife /\ [][NextLife]_vars /\ FairLife

\* C18: after every disconnect, with the radio powered on and without a
\* request of the caller, the connection state eventually becomes scanning
\* again.
C18_ReconnectsAfterDisconnect ==
    (lastOp.op = "disconnect" /\ radioOn) ~> (connectionState = "scanning")

\* part001: the reconnect timer armed by a disconnect has fired and the state
\* is scanning again
C18_Witness ==
    /\ variant = "part001"
    /\ radioOn
    /\ budget.connects = 1
    /\ lastOp.op = "retry"
    /\ connectionState = "scanning"

\* C19: a reconnect timer that fires while the connection state is scanning,
\* connecting or connected starts no new scan: the state, the scanning flag
\* and the connect attempts in progress stay as they are.
C19_RetryRespectsState ==
    [][(lastOp'.op = "retry" /\ retryTimer' # retryTimer
        /\ connectionState \in InProgress) =>
           UNCHANGED << connectionState, isScanning, scanOn, scanCb,
                        connPc >>]_vars

\* a reconnect timer fired while the caller's new connection was up
C19_Witness ==
    /\ lastOp.op = "retry"
    /\ link = "up"
    /\ isConnected
    /\ monitoring # << >>
    /\ connectionState = "scanning"

\* C20: with the radio not powered on, a connect request ends with the
\* connection state idle and the scanning flag false, and starts no scan.
C20_RadioOffEndsIdle ==
    (~radioOn /\ budget.connects > 0) =>
        /\ ~scanOn
        /\ connPc = << >> =>
              (connectionState = "idle" /\ ~isScanning)

\* part001: manager.state() answered that the radio is off
C20_Witness ==
    /\ ~radioOn
    /\ lastOp.op = "powerCheck"
    /\ connectionState = "idle"
    /\ ~isScanning
    /\ ~scanOn

\* C21: every entry into the connected state is followed by the subscription
\* of the notifications and by the write of HELLO, and HELLO is written
\* before any GET of that connection.  In the form a finite run refutes: the
\* connect block that finds both characteristics writes HELLO and subscribes
\* (part001 subscribes once the HELLO write has settled), and no GET is
\* written while a connect block is between the connected state and its
\* HELLO.
C21_HandshakeOnConnect ==
    [][/\ (/\ lastOp'.op = "resolve"
           /\ connPc' # connPc
           /\ txCharRef' # NULL
           /\ rxCharRef' # NULL) =>
              /\ lastOp'.written = << "HELLO" >>
              /\ \/ monitoring' # monitoring
                 \/ \E i \in 1..Len(connPc') : connPc'[i].pc = "hello"
       /\ (lastOp'.op = "sendCommand" /\ lastOp'.written # << >>) =>
              \A i \in 1..Len(connPc) : connPc[i].pc # "resolve"]_vars

\* a connect block found both characteristics, HELLO was written and the
\* notifications are subscribed
C21_Witness ==
    /\ lastOp.op = "resolve"
    /\ lastOp.written = << "HELLO" >>
    /\ txCharRef # NULL
    /\ rxCharRef # NULL
    /\ connectionState = "connected"
    /\ monitoring # << >>

-----------------------------------------------------------------------------
\* C22: a tick of one of the two GET intervals writes only GET, and writes
\* it only in a state where the connection state is "connected" and the
\* command slot is free; nothing is kept for later (the only writes in
\* flight are the ones a call of sendCommand started itself)
C22_IntervalWritesOnlyConnected ==
    [][lastOp'.op = "sendCommand" =>
          /\ lastOp'.written # << >> =>
                 /\ connectionState = "connected"
                 /\ activeCommandRef = NULL
                 /\ lastOp'.written = << "GET" >>
          /\ Len(pendingWrites') = Len(pendingWrites) + Len(lastOp'.written)]_vars

\* a tick wrote GET while connected with the slot free
C22_Witness ==
    /\ lastOp.op = "sendCommand"
    /\ lastOp.written = << "GET" >>
    /\ connectionState = "connected"
    /\ activeCommandRef = "GET"

-----------------------------------------------------------------------------
\* C23: sendCommand called while no write characteristic is attached starts
\* no write, leaves the command slot as it was (free if it was free), arms
\* no deadline and sets no error; and no step starts a write while no write
\* characteristic is attached before and after it
C23_NoCharacteristicNoOp ==
    [][/\ (lastOp'.op = "sendCommand" /\ rxCharRef = NULL) =>
              /\ lastOp'.written = << >>
              /\ UNCHANGED << activeCommandRef, pendingWrites, timers,
                              error, freedBy >>
       /\ (rxCharRef = NULL /\ rxCharRef' = NULL) =>
              Len(pendingWrites') <= Len(pendingWrites)]_vars

\* an interval called sendCommand with the slot free and no write
\* characteristic, and the slot is still free
C23_Witness ==
    /\ lastOp.op = "sendCommand"
    /\ lastOp.cmd = "GET"
    /\ lastOp.slot = NULL
    /\ lastOp.written = << >>
    /\ rxCharRef = NULL
    /\ activeCommandRef = NULL
    /\ pendingWrites = << >>

-----------------------------------------------------------------------------
(* handleTX on single lines.  The hook is connected with both              *)
(* characteristics and subscribed; the slot is free or holds a command     *)
(* whose write was acknowledged (its deadline is armed).  The lines are     *)
(* complete lines as the monitor callback cuts them.                       *)

MaxLines == 2

\* "1,2" a reading; "1,2,END" a reading followed by a field that holds END;
\* "1,2END" a second field that is no number and holds END; "ERROR,1" a
\* first field that is a sentinel word; ",5" an empty first field; "END" and
\* "cleared" sentinels; " hi" a status line with white space in front
TestLines ==
    { << "1", ",", "2" >>,
      << "1", ",", "2", ",", "E", "N", "D" >>,
      << "1", ",", "2", "E", "N", "D" >>,
      << "E", "R", "R", "O", "R", ",", "1" >>,
      << ",", "5" >>,
      << "E", "N", "D" >>,
      << "c", "l", "e", "a", "r", "e", "d" >>,
      << " ", "h", "i" >> }

InitLine ==
    /\ variant \in Variants
    /\ connectionState = "connected"
    /\ isConnected = TRUE
    /\ isScanning = FALSE
    /\ error = NULL
    /\ sensorLogData = << >>
    /\ statusLogData = << >>
    /\ stats = InitialStats(variant)
    /\ txCharRef = "tx"
    /\ rxCharRef = "rx"
    /\ activeCommandRef \in Commands \cup {NULL}
    /\ lineBufferRef = << >>
    /\ scanOn = FALSE
    /\ scanCb = [cs |-> NULL, late |-> 0]
    /\ connPc = << >>
    /\ link = "up"
    /\ monitoring = << "connected" >>
    /\ wire = << >>
    /\ pendingWrites = << >>
    /\ timers = [c \in Commands |->
                    IF c = activeCommandRef THEN 1 ELSE 0]
    /\ retryTimer = << >>
    /\ mounted = FALSE
    /\ dataDirty = FALSE
    /\ statsDirty = FALSE
    /\ pendingSaves = << >>
    /\ loadPc = "start"
    /\ clearPc = "none"
    /\ storageStats = InitialStorageStats(variant)
    /\ timeRangeStats = InitialTimeRangeStats(variant)
    /\ lastOp = Op("init", NULL, NULL, NoH)
    /\ freedBy = "none"
    /\ resp = NoResp
    /\ fed = << >>
    /\ delivered = << >>
    /\ saveLost = FALSE
    /\ statsFresh = FALSE
    /\ budget = [streams |-> 0, connects |-> 0, lines |-> 0, late |-> 0]
    /\ now = 0
    /\ file = NoFile
    /\ radioOn = TRUE

\* handleTX(text), called by the monitor callback with one complete line
HandleLine(text) ==
    /\ budget.lines < MaxLines
    /\ budget' = [budget EXCEPT !.lines = @ + 1]
    /\ LET h == HandleTX(variant, Core, rxCharRef, link = "up", text, now)
       IN  /\ Commit(h)
           /\ lastOp' = Op("handleTX", NULL, activeCommandRef, h)
    /\ UNCHANGED << variant, lifeVars, lineBufferRef, now, wire, timers,
                    resp, storeVars, frameVars >>

NextLine == \E text \in TestLines : HandleLine(text)

SpecLine == InitLine /\ [][NextLine]_vars

\* C24: a line from which at least one reading was accepted (the reading
\* set grew) leaves the command slot as it was, starts no write (no CLEAR)
\* and appends no status entry, whatever its text holds
C24_ReadingBeforeSentinel ==
    [][(lastOp'.op = "handleTX" /\ sensorLogData' # sensorLogData) =>
           /\ activeCommandRef' = activeCommandRef
           /\ pendingWrites' = pendingWrites
           /\ lastOp'.written = << >>
           /\ freedBy' = freedBy
           /\ statusLogData' = statusLogData]_vars

\* a line that holds a sentinel word was accepted as a reading while GET was
\* in flight, and GET is still in flight
C24_Witness ==
    /\ lastOp.op = "handleTX"
    /\ IsSentinel(lastOp.line.text)
    /\ lastOp.line.readings # << >>
    /\ sensorLogData # << >>
    /\ lastOp.slot = "GET"
    /\ activeCommandRef = "GET"

\* C25: a line that yields no reading (the reading set is unchanged) and
\* holds no sentinel word appends exactly one status entry, which carries
\* the time, the command in flight (or null) and the trimmed text; the slot
\* and the reading set are unchanged and no write is started
C25_StatusEntry ==
    [][(/\ lastOp'.op = "handleTX"
        /\ sensorLogData' = sensorLogData
        /\ ~IsSentinel(lastOp'.line.text)) =>
           /\ statusLogData' =
                  Append(statusLogData,
                         [timestamp |-> now, command |-> activeCommandRef,
                          text |-> Trim(lastOp'.line.text)])
           /\ activeCommandRef' = activeCommandRef
           /\ pendingWrites' = pendingWrites
           /\ freedBy' = freedBy]_vars

\* a status line arrived while HELLO was in flight: one entry tagged HELLO
C25_Witness ==
    /\ lastOp.op = "handleTX"
    /\ lastOp.line.text = << " ", "h", "i" >>
    /\ lastOp.slot = "HELLO"
    /\ activeCommandRef = "HELLO"
    /\ Len(statusLogData) = 1
    /\ statusLogData[1].command = "HELLO"
    /\ statusLogData[1].text = << "h", "i" >>

-----------------------------------------------------------------------------
\* C26: on every step other than the reset of clearSavedData the reading set
\* before the step is a prefix of the reading set after it; in particular a
\* reading received before the startup load completes is still there after
\* the load
C26_AppendOnly ==
    [][lastOp'.op # "cleared" =>
          /\ Len(sensorLogData) <= Len(sensorLogData')
          /\ SubSeq(sensorLogData', 1, Len(sensorLogData)) = sensorLogData]_vars

\* a reading was received while the load was reading the file, and the load
\* has completed
C26_Witness ==
    /\ lastOp.op = "loadRead"
    /\ file.exists
    /\ budget.lines = 1
    /\ loadPc = "done"

-----------------------------------------------------------------------------
\* the load and the clear have ended and nothing is left to render
Settled ==
    /\ mounted
    /\ ~dataDirty
    /\ ~statsDirty
    /\ loadPc = "done"
    /\ clearPc # "deleting"

\* C27: once the load has ended and the renders have settled, the stats in
\* memory are what the stats effect computes from the reading set in memory,
\* whatever stats the file held
C27_StatsDerived ==
    Settled => stats = StatsEffectOf(variant, sensorLogData, now)

\* a file with stats and no readings field was loaded, no reading was
\* received, and the renders have settled
C27_Witness ==
    /\ Settled
    /\ clearPc = "none"
    /\ budget.lines = 0
    /\ sensorLogData = << >>
    /\ stats = StaleSnapshot(variant).stats

-----------------------------------------------------------------------------
\* C28: in hooks, after the time-range effect ran on the current readings at
\* the current time, readingsMonth is the number of readings received from
\* the first day of the month of the current date up to, not including, the
\* first day of the next month
C28_ReadingsMonth ==
    (statsFresh /\ variant = "hooks") =>
        timeRangeStats.readingsMonth =
            Num(CountIn(sensorLogData, StartOfMonth(now \div DayMs),
                        EndOfMonth(now \div DayMs)))

\* the effect ran on a reading received today, on a date whose week began
\* in the month before
C28_Witness ==
    /\ statsFresh
    /\ variant = "hooks"
    /\ MondayOf(now \div DayMs) < StartOfMonth(now \div DayMs)
    /\ \E i \in 1..Len(sensorLogData) :
           sensorLogData[i].receivedAt \div DayMs = now \div DayMs

-----------------------------------------------------------------------------
\* C29: the load of a bare array sets the reading set to that array and
\* leaves the stats as they were; the load of an object sets the reading set
\* from its readings field if it has one and the stats from its stats field
\* if it has one, each whether or not the other is there; with no file the
\* load ends after getInfoAsync and changes neither
C29_LoadShapes ==
    [][/\ (lastOp'.op = "loadRead" /\ file.exists /\ file.legacy) =>
              /\ sensorLogData' = file.readings
              /\ stats' = stats
       /\ (lastOp'.op = "loadRead" /\ file.exists /\ ~file.legacy) =>
              /\ sensorLogData' = IF file.hasReadings THEN file.readings
                                  ELSE sensorLogData
              /\ stats' = IF file.hasStats THEN file.stats ELSE stats
       /\ (lastOp'.op \in {"loadInfo", "loadRead"} /\ ~file.exists) =>
              /\ loadPc' = "done"
              /\ UNCHANGED << sensorLogData, stats >>]_vars

\* an object with a stats field and no readings field was loaded after a
\* reading had been received: the reading is kept and the stats are the
\* file's
C29_Witness ==
    /\ lastOp.op = "loadRead"
    /\ file.exists
    /\ ~file.legacy
    /\ ~file.hasReadings
    /\ file.hasStats
    /\ Len(sensorLogData) = 1
    /\ stats = file.stats

-----------------------------------------------------------------------------
\* the steps in which a load, a save or a clear of the data file fails
FailedStoreOps == {"loadFailed", "saveFailed", "clearFailed"}

\* C30: a failed load, save or clear leaves the reading set, the stats, the
\* command state and the connection state as they were, and leaves what is
\* due to be rendered due; the load and the clear end (nothing waits for
\* them).  Whatever failed before, an appended reading makes a render due,
\* and every render starts a write of the readings and the stats it holds.
C30_StoreFailuresHarmless ==
    [][/\ (\/ lastOp'.op \in FailedStoreOps
           \/ (lastOp'.op = "loadRead" /\ ~file.exists)) =>
              /\ UNCHANGED << sensorLogData, stats, statusLogData,
                              activeCommandRef, pendingWrites, timers,
                              lifeVars, lineBufferRef, mounted, dataDirty,
                              statsDirty, file >>
              /\ lastOp'.op \in {"loadFailed", "loadRead"} => loadPc' = "done"
              /\ lastOp'.op = "clearFailed" => clearPc' = "failed"
       /\ lastOp'.op = "append" => dataDirty'
       /\ lastOp'.op = "render" =>
              pendingSaves' = Append(pendingSaves,
                                     Snapshot(sensorLogData, stats))]_vars

\* a save failed with nothing else in progress, then a reading was received
\* and the render that followed started a write that holds it
C30_Witness ==
    /\ saveLost
    /\ lastOp.op = "render"
    /\ budget.lines = 1
    /\ Len(pendingSaves) = 1
    /\ pendingSaves[1].readings = ToJSONReadings(sensorLogData)
    /\ Len(sensorLogData) >= 1
    /\ ~file.exists

-----------------------------------------------------------------------------
\* the steps in which the scan, the connect or the service discovery fails
FailedConnectOps == {"scanError", "attachFail"}

\* C31: after a failed scan, connect or service discovery the connection
\* state is disconnected or idle, the scanning flag is false and the error
\* is set; and a new attempt is on its way without a request from outside
\* (a reconnect timer is armed or a connectAndListen call is in progress)
C31_FailureRecovers ==
    [][lastOp'.op \in FailedConnectOps =>
          /\ connectionState' \in {"disconnected", "idle"}
          /\ ~isScanning'
          /\ error' # NULL
          /\ \/ retryTimer' # << >>
             \/ \E i \in 1..Len(connPc') : connPc'[i].pc = "power"
             \/ scanOn']_vars

\* part001: connect() was rejected; the state is disconnected with the error
\* set, and nothing is armed or in progress
C31_Witness ==
    /\ variant = "part001"
    /\ lastOp.op = "attachFail"
    /\ connectionState = "disconnected"
    /\ ~isScanning
    /\ error # NULL
    /\ retryTimer = << >>
    /\ connPc = << >>
    /\ ~scanOn

-----------------------------------------------------------------------------
\* a write of the command c is still waiting for its acknowledgement; the
\* deadline of a send is armed only after that acknowledgement
WriteUnsettled(c) == \E i \in 1..Len(pendingWrites) : pendingWrites[i].cmd = c

\* C32: a deadline releases only the send it was armed for: it never
\* releases the slot of a command whose own deadline is not armed yet (its
\* write is still unacknowledged)
C32_OwnDeadlineOnly ==
    [][(/\ lastOp'.op = "timeout"
        /\ activeCommandRef # NULL
        /\ activeCommandRef' = NULL) => ~WriteUnsettled(activeCommandRef)]_vars

\* a deadline armed for GET fired while a later GET, whose write is not yet
\* acknowledged, held the slot, and the slot is free
C32_Witness ==
    /\ lastOp.op = "timeout"
    /\ lastOp.cmd = "GET"
    /\ lastOp.slot = "GET"
    /\ activeCommandRef = NULL
    /\ WriteUnsettled("GET")

-----------------------------------------------------------------------------
\* C33: a sentinel line handled while the command slot is free starts no
\* write (no CLEAR) and leaves the slot free
C33_IdleSentinel ==
    [][(/\ lastOp'.op = "handleTX"
        /\ activeCommandRef = NULL
        /\ IsSentinel(lastOp'.line.text)
        /\ sensorLogData' = sensorLogData) =>
           /\ lastOp'.written = << >>
           /\ pendingWrites' = pendingWrites
           /\ activeCommandRef' = NULL]_vars

\* "END" was handled with the slot free
C33_Witness ==
    /\ lastOp.op = "handleTX"
    /\ lastOp.slot = NULL
    /\ lastOp.line.text = << "E", "N", "D" >>
    /\ lastOp.line.kind = "sentinel"

-----------------------------------------------------------------------------
\* C34: the file an earlier run left is not overwritten before the startup
\* load has read it: no write of the persist effect completes over it while
\* the load is waiting for getInfoAsync or for readAsStringAsync
C34_LoadBeforeSave ==
    [][(lastOp'.op = "saved" /\ loadPc \in {"info", "read"}) =>
           ~(file.exists /\ file \in StoredFiles(variant))]_vars

\* the write of the first render (no readings) completed while the load was
\* waiting for the read
C34_Witness ==
    /\ lastOp.op = "saved"
    /\ loadPc = "read"
    /\ budget.lines = 0
    /\ file = Snapshot(<< >>, StatsEffectOf(variant, << >>, now))

-----------------------------------------------------------------------------
(* The reassembler across connections: the hook connects, the monitor      *)
(* callback receives chunks while the connection is up, the connection is  *)
(* lost and the caller asks for a new one.                                 *)

\* the monitor callback is called with a chunk on the connection in place
FeedLink(text) ==
    /\ link = "up"
    /\ monitoring # << >>
    /\ Feed(text)

NextRelink ==
    \/ ConnectRequest(MaxRequests)
    \/ \E i \in 1..Len(connPc) : PowerCheck(i)
    \/ ScanMatch
    \/ \E i \in 1..Len(connPc) : AttachOk(i)
    \/ \E i \in 1..Len(connPc) : Resolve(i, TRUE, TRUE)
    \/ WriteAck
    \/ Disconnect
    \/ \E text \in Chunks(MaxFed) : FeedLink(text)

SpecRelink == Init /\ [][NextRelink]_vars

\* C35: when a connection is established the reassembly buffer is empty, so
\* the first line cut from it holds only bytes received on that connection
\* (the callback cuts its lines from the buffer followed by the new bytes)
C35_FreshBuffer ==
    [][lastOp'.op = "attachOk" => lineBufferRef' = << >>]_vars

\* a connection was lost in the middle of a line, and a new connection is
\* established with that partial line still in the buffer
C35_Witness ==
    /\ lastOp.op = "attachOk"
    /\ budget.connects = 2
    /\ fed = << "7", ",", "7" >>
    /\ delivered = << >>
    /\ lineBufferRef = << "7", ",", "7" >>

-----------------------------------------------------------------------------
\* C36: in every state isConnected is true exactly when the connection
\* state is "connected", and isScanning is true exactly when it is
\* "scanning"
C36_FlagsAgree ==
    /\ isConnected <=> (connectionState = "connected")
    /\ isScanning <=> (connectionState = "scanning")

\* part001: the connect block ended on a missing characteristic; the state
\* is "disconnected" and isConnected is still true
C36_Witness ==
    /\ variant = "part001"
    /\ lastOp.op = "resolve"
    /\ lastOp.cmd = NULL
    /\ connectionState = "disconnected"
    /\ isConnected
    /\ link = "up"

-----------------------------------------------------------------------------
\* C37: the connect block writes HELLO only once the notifications are
\* subscribed, and nothing the device sends while HELLO is in flight is
\* dropped for lack of a subscriber
C37_SubscribedBeforeHello ==
    [][/\ (lastOp'.op = "resolve" /\ lastOp'.written = << "HELLO" >>) =>
              monitoring # << >>
       /\ lastOp'.op = "lose" => activeCommandRef # "HELLO"]_vars

\* part001: the device answered HELLO while the connect block was still
\* awaiting the write, before monitor() was called, and the answer was
\* dropped
C37_Witness ==
    /\ variant = "part001"
    /\ lastOp.op = "lose"
    /\ activeCommandRef = "HELLO"
    /\ monitoring = << >>
    /\ \E i \in 1..Len(connPc) : connPc[i].pc = "hello"

-----------------------------------------------------------------------------
\* C38: in hooks, after the time-range effect ran on the current readings at
\* the current time, readingsToday is at most readingsWeek and at most
\* readingsMonth
C38_TodayWithinWeekAndMonth ==
    (statsFresh /\ variant = "hooks") =>
        /\ ~Greater(timeRangeStats.readingsToday, timeRangeStats.readingsWeek)
        /\ ~Greater(timeRangeStats.readingsToday, timeRangeStats.readingsMonth)

\* the effect counted a reading of today for the day and the week and none
\* for the month
C38_Witness ==
    /\ statsFresh
    /\ variant = "hooks"
    /\ timeRangeStats.readingsToday = Num(1)
    /\ timeRangeStats.readingsWeek = Num(1)
    /\ timeRangeStats.readingsMonth = Zero

-----------------------------------------------------------------------------
\* C39: when the write of a command fails no deadline is armed, the slot is
\* released if that command holds it, and the slot of another command (one
\* accepted after the failing one) is left alone
C39_WriteFailureOwnSlot ==
    [][lastOp'.op = "writeFail" =>
          /\ timers' = timers
          /\ activeCommandRef = lastOp'.cmd => activeCommandRef' = NULL
          /\ activeCommandRef # lastOp'.cmd =>
                 activeCommandRef' = activeCommandRef]_vars

\* the write of HELLO failed while CLEAR, accepted after it, held the slot,
\* and the slot is free
C39_Witness ==
    /\ lastOp.op = "writeFail"
    /\ lastOp.cmd = "HELLO"
    /\ lastOp.slot = "CLEAR"
    /\ activeCommandRef = NULL
    /\ WriteUnsettled("CLEAR")

-----------------------------------------------------------------------------
(* Messages from the presentation layer (the WebView's onMessage).  The    *)
(* repository holds two versions of the handler: part000 returns on a log  *)
(* message and calls connectAndListen on a connectBluetooth message; App   *)
(* calls connectAndListen on every message it can parse while isConnected  *)
(* is false.                                                               *)

\* a connect request, a console line of the page, a text JSON.parse rejects
Messages == {"connectBluetooth", "log", "garbage"}

\* whether the handler of the version `app` calls connectAndListen on msg
CallsConnect(app, msg) ==
    IF app = "part000" THEN msg = "connectBluetooth"
    ELSE msg # "garbage" /\ ~isConnected

\* onMessage(event) in the version `app`
OnMessage(app, msg) ==
    /\ budget.connects < MaxRequests
    /\ budget' = [budget EXCEPT !.connects = @ + 1]
    /\ IF CallsConnect(app, msg)
       THEN ConnectAndListenBody(connectionState)
       ELSE UNCHANGED connVars
    /\ lastOp' = Op("onMessage", msg, activeCommandRef, NoH)
    /\ UNCHANGED << variant, retryTimer, cmdVars, lineBufferRef, now, wire,
                    timers, resp, storeVars, frameVars >>

\* the messages and what the hook does once a connection was asked for
NextMsg(app) ==
    \/ \E msg \in Messages : OnMessage(app, msg)
    \/ \E i \in 1..Len(connPc) : PowerCheck(i)
    \/ ScanError
    \/ ScanMatch
    \/ \E i \in 1..Len(connPc) : AttachOk(i)
    \/ \E i \in 1..Len(connPc) : AttachFail(i)
    \/ \E i \in 1..Len(connPc), txFound, rxFound \in BOOLEAN :
          Resolve(i, txFound, rxFound)
    \/ Disconnect
    \/ WriteAck
    \/ WriteFail
    \/ \E cmd \in Commands : TimerFire(cmd)

SpecMsg == Init /\ [][NextMsg("part000")]_vars
SpecMsgApp == Init /\ [][NextMsg("App")]_vars

\* C40: a message that is no connect request (a log line of the page, a
\* text that cannot be parsed) starts no scan and changes nothing in the
\* hook
C40_OnlyConnectRequest ==
    [][(lastOp'.op = "onMessage" /\ lastOp'.cmd # "connectBluetooth") =>
           UNCHANGED << lifeVars, cmdVars, lineBufferRef, wire, timers,
                        storeVars >>]_vars

\* a log message arrived while the hook was idle, and a connection attempt
\* is under way
C40_Witness ==
    /\ lastOp.op = "onMessage"
    /\ lastOp.cmd = "log"
    /\ budget.connects = 1
    /\ isScanning
    /\ connectionState = "scanning"

=============================================================================
